---- MODULE Spec2Model ----
(***************************************************************************)
(* GOSFS, the GeekOS file system (bakadeer/geekos_1_5).                    *)
(*                                                                         *)
(* Two implementations are in the repository.  The complete one (user.c    *)
(* followed by gosfs.c, kept here as src/unnamed/part_000) holds the whole *)
(* superblock (inode table and block bitmap) in the mount instance; the    *)
(* unfinished one (src/src/project5/src/geekos/gosfs.c) keeps inodes in    *)
(* the buffer cache.  The file-system state machine below is the first;    *)
(* the lock and buffer discipline of the second is modelled where a        *)
(* property is about it (names starting with P5_).                         *)
(*                                                                         *)
(* Sizes are scaled down so that every region of a file (direct, single    *)
(* indirect, double indirect) is reachable by TLC.  The unit of storage is *)
(* a cell: one byte of file data, one ulong_t, or one field of a           *)
(* directory entry occupies one cell.  Every scaled constant names the     *)
(* value the source gives it.                                              *)
(*                                                                         *)
(* Collaborators that are not in the source tree are taken to behave as    *)
(* their callers expect: Malloc hands out zero-filled memory, the device   *)
(* is zero-filled before format, Get_FS_Buffer succeeds exactly for the    *)
(* blocks of the device, Find_First_Free_Bit returns -1 when no bit is     *)
(* clear, a Mutex admits one holder.                                       *)
(***************************************************************************)
EXTENDS Integers, Sequences, FiniteSets, TLC

(***************************************************************************)
(* Program constants (scaled)                                              *)
(***************************************************************************)
\* gosfs.h:29, 4096 bytes in the source
GOSFS_FS_BLOCK_SIZE == 6
\* gosfs.h:38, 8 in the source
GOSFS_NUM_DIRECT_BLOCKS == 2
\* gosfs.h:39
GOSFS_NUM_INDIRECT_BLOCKS == 1
\* gosfs.h:40
GOSFS_NUM_2X_INDIRECT_BLOCKS == 1
\* part_000:207, 1024 in the source
GOSFS_NUM_INODES == 4
\* part_000:205, 0x0d000721 in the source; its low 16 bits here
GOSFS_MAGIC == 1825
\* gosfs.h:36
GOSFS_FILENAME_MAX == 127
\* gosfs.h:32-34
GOSFS_DIRENTRY_USED == 1
GOSFS_DIRENTRY_ISDIRECTORY == 2
GOSFS_DIRENTRY_SETUID == 4
\* part_000:211-213
GOSFS_DIRTYP_THIS == 1
GOSFS_DIRTYP_REGULAR == 0
GOSFS_DIRTYP_FREE == -1

\* sizeof(ulong_t), in cells
SizeofUlong == 1
\* ulong_t arithmetic is modulo 2^32 in the source; 2^16 here
UlongModulus == 65536
\* an int or a negative literal stored into a ulong_t
ToUlong(x) == x % UlongModulus
\* a ulong_t stored into an int
ToInt(x) == IF x >= UlongModulus \div 2 THEN x - UlongModulus ELSE x

\* struct GOSFS_Directory (part_000:223-228): filename, type, inode
SizeofDirectory == 3
\* struct VFS_ACL_Entry acl[VFS_MAX_ACL_ENTRIES] (gosfs.h:57), in cells;
\* 10 entries of one word in the source
VFS_MAX_ACL_ENTRIES == 4

GOSFS_NUM_PTRS_PER_BLOCK == GOSFS_FS_BLOCK_SIZE \div SizeofUlong
GOSFS_NUM_INDIRECT_PTR_PER_BLOCK == GOSFS_FS_BLOCK_SIZE \div SizeofUlong
GOSFS_NUM_BLOCK_PTRS ==
    GOSFS_NUM_DIRECT_BLOCKS + GOSFS_NUM_INDIRECT_BLOCKS + GOSFS_NUM_2X_INDIRECT_BLOCKS
GOSFS_DIR_ENTRIES_PER_BLOCK == GOSFS_FS_BLOCK_SIZE \div SizeofDirectory

\* sizeof(struct GOSFS_Dir_Entry) in words: size, flags, blockList, acl.
\* In the source 2 + 10 + 10 = 22 words, so that blockList[8 + 1024] of inode
\* i is the size word of inode i + 47; here 2 + 4 + 4 = 10 words and
\* blockList[2 + 6] of inode i is the size word of inode i + 1.
SizeofDirEntry == 2 + GOSFS_NUM_BLOCK_PTRS + VFS_MAX_ACL_ENTRIES
\* magic, supersize, size
SizeofSuperblockHeader == 3

(***************************************************************************)
(* Bounds of the model                                                     *)
(***************************************************************************)
\* Get_Num_Blocks(blockDev) / GOSFS_SECTORS_PER_FS_BLOCK
NumDevBlocks == 24
\* open struct File records at a time
MaxFiles == 2
\* operations after mount in one behaviour
MaxOps == 3
\* buffers a behaviour may leave pinned
MaxPinned == 2
\* kernel threads inside the file system at a time
NumThreads == 2
\* calls the threads make in one behaviour
MaxCalls == 3

SetMin(S) == CHOOSE x \in S : \A y \in S : x <= y

(***************************************************************************)
(* Error codes.  rc is "OK" or the name of the error; a literal -1 in the  *)
(* source is EUNSPECIFIED (part_000:412).                                  *)
(***************************************************************************)
OK == "OK"
EUNSPECIFIED == "EUNSPECIFIED"
ENOTFOUND == "ENOTFOUND"
ENOSPACE == "ENOSPACE"
EACCESS == "EACCESS"
ENOMEM == "ENOMEM"
EINVALID == "EINVALID"
EINVALIDFS == "EINVALIDFS"
VFS_NO_MORE_DIR_ENTRIES == "VFS_NO_MORE_DIR_ENTRIES"

(***************************************************************************)
(* Paths and names.  A path is a sequence of characters; a file name is    *)
(* stored in one cell as the number NameCode gives it ("" is 0).           *)
(***************************************************************************)
CharCode(c) == IF c = "a" THEN 1 ELSE IF c = "b" THEN 2 ELSE 3

RECURSIVE NameCode(_)
NameCode(s) == IF s = <<>> THEN 0 ELSE CharCode(Head(s)) + 4 * NameCode(Tail(s))

\* strchr(start, '/'): index of the first '/' at or after start, Len + 1 if none
RECURSIVE Strchr(_, _)
Strchr(path, start) ==
    IF start > Len(path) THEN Len(path) + 1
    ELSE IF path[start] = "/" THEN start
    ELSE Strchr(path, start + 1)

\* strrchr(path, '/'): index of the last '/', 0 if none
RECURSIVE StrrchrFrom(_, _)
StrrchrFrom(path, i) ==
    IF i = 0 THEN 0 ELSE IF path[i] = "/" THEN i ELSE StrrchrFrom(path, i - 1)
Strrchr(path) == StrrchrFrom(path, Len(path))

\* prevPos = 0 stands for NULL.  Returns end = 0 for NULL.
NextPathComponent(path, prevPos, bufSize) ==
    IF path = <<>> \/ path[1] # "/" THEN [end |-> 0, buf |-> <<>>]
    ELSE LET pathEnd == Len(path) + 1
             start == IF prevPos = 0 THEN 2 ELSE prevPos + 1
         IN IF start > pathEnd THEN [end |-> 0, buf |-> <<>>]
            ELSE IF start = pathEnd THEN [end |-> 0, buf |-> <<>>]
            ELSE LET end == Strchr(path, start)
                     len == IF end - start >= bufSize THEN bufSize - 1 ELSE end - start
                 IN [end |-> end, buf |-> SubSeq(path, start, start + len - 1)]

\* rc -1 is "fail"; the parent path otherwise
GetParentPath(path, bufSize) ==
    IF path = <<>> \/ bufSize <= 0 THEN [rc |-> -1, parent |-> <<>>]
    ELSE IF path[1] # "/" THEN [rc |-> -1, parent |-> <<>>]
    ELSE LET lastSlash == Strrchr(path)
         IN IF lastSlash = 0 THEN [rc |-> -1, parent |-> <<>>]
            ELSE IF lastSlash = 1
                 THEN IF bufSize < 2 THEN [rc |-> -1, parent |-> <<>>]
                      ELSE [rc |-> 0, parent |-> <<"/">>]
            ELSE IF lastSlash - 1 >= bufSize THEN [rc |-> -1, parent |-> <<>>]
            ELSE [rc |-> 0, parent |-> SubSeq(path, 1, lastSlash - 1)]

\* strrchr(path, '/') + 1
LastName(path) == SubSeq(path, Strrchr(path) + 1, Len(path))

FindNumBlocks(size) == ((size - 1) \div GOSFS_FS_BLOCK_SIZE) + 1
FIND_NUM_BYTES(nbits) == (nbits + 7) \div 8

(***************************************************************************)
(* Blocks of the buffer cache: GOSFS_FS_BLOCK_SIZE cells each              *)
(***************************************************************************)
Blocks == 0 .. NumDevBlocks - 1
ZeroBlock == [c \in 1 .. GOSFS_FS_BLOCK_SIZE |-> 0]
\* Get_FS_Buffer succeeds
BlockOK(b) == b \in Blocks

\* the e-th struct GOSFS_Directory of a block, e from 0
DirEntryAt(blk, e) ==
    [filename |-> blk[SizeofDirectory * e + 1],
     type     |-> blk[SizeofDirectory * e + 2],
     inode    |-> blk[SizeofDirectory * e + 3]]
PutDirEntry(blk, e, d) ==
    [c \in 1 .. GOSFS_FS_BLOCK_SIZE |->
        IF c = SizeofDirectory * e + 1 THEN d.filename
        ELSE IF c = SizeofDirectory * e + 2 THEN d.type
        ELSE IF c = SizeofDirectory * e + 3 THEN d.inode
        ELSE blk[c]]
FreeDirEntry == [filename |-> 0, type |-> GOSFS_DIRTYP_FREE, inode |-> 0]
EntryIdx == 0 .. GOSFS_DIR_ENTRIES_PER_BLOCK - 1

CreateNextDirectoryBlock(blk) ==
    [c \in 1 .. GOSFS_FS_BLOCK_SIZE |->
        IF (c - 1) \div SizeofDirectory \in EntryIdx
        THEN IF (c - 1) % SizeofDirectory = 1 THEN GOSFS_DIRTYP_FREE ELSE 0
        ELSE blk[c]]

CreateFirstDirectoryBlock(thisInode, blk, name) ==
    PutDirEntry(CreateNextDirectoryBlock(blk), 0,
                [filename |-> NameCode(name), type |-> GOSFS_DIRTYP_THIS,
                 inode |-> thisInode])

(***************************************************************************)
(* The superblock: inode table and bitmap                                  *)
(***************************************************************************)
Inodes == 0 .. GOSFS_NUM_INODES - 1
ZeroInode ==
    [size |-> 0, flags |-> 0,
     blockList |-> [k \in 1 .. GOSFS_NUM_BLOCK_PTRS |-> 0],
     acl |-> [k \in 1 .. VFS_MAX_ACL_ENTRIES |-> 0]]

VARIABLES
    mounted,      \* mountPoint->fsData is set
    inodes,       \* instance->superblock.inodes
    bitSet,       \* instance->superblock.bitSet, the set of set bits
    cache,        \* contents of the file-system blocks, seen through the buffer cache
    disk,         \* contents of the blocks on the device itself
    files,        \* struct File records, by descriptor
    pinned,       \* buffers obtained by Get_FS_Buffer and not released
    crashed,      \* the kernel dereferenced a null or wild pointer
    last,         \* what the last operation was and what it returned
    nops,         \* operations since mount
    lock,         \* the thread that holds the mount instance's mutex, 0 for none
    flock,        \* per open file, the thread that holds the file's own mutex, 0 for none
    thr           \* where each kernel thread is inside a call

vars == <<mounted, inodes, bitSet, cache, disk, files, pinned, crashed, last, nops,
          lock, flock, thr>>
tvars == <<lock, flock, thr>>

\* struct File: fsData is the inode (a file) or the copied entries (a directory)
FileRec(kind, inode, endPos, mode, entries) ==
    [kind |-> kind, inode |-> inode, filePos |-> 0, endPos |-> endPos, mode |-> mode,
     entries |-> entries]
NoFile == FileRec("none", 0, 0, {}, <<>>)

Threads == 1 .. NumThreads
IdleThread ==
    [pc |-> "idle", op |-> "none", h |-> 0, arg |-> 0, offset |-> 0, calls |-> 0,
     rc |-> "OK", data |-> <<>>, freeBlock |-> 0]
Last(op, rc, path, h, arg, n, data) ==
    [op |-> op, rc |-> rc, path |-> path, h |-> h, arg |-> arg, n |-> n, data |-> data]

Init ==
    /\ mounted = FALSE
    /\ inodes = [i \in Inodes |-> ZeroInode]
    /\ bitSet = {}
    /\ cache = [b \in Blocks |-> ZeroBlock]
    /\ disk = [b \in Blocks |-> ZeroBlock]
    /\ files = [h \in 1 .. MaxFiles |-> NoFile]
    /\ pinned = 0
    /\ crashed = FALSE
    /\ last = Last("init", OK, <<>>, 0, 0, 0, <<>>)
    /\ nops = 0
    /\ lock = 0
    /\ flock = [h \in 1 .. MaxFiles |-> 0]
    /\ thr = [t \in Threads |-> IdleThread]

(***************************************************************************)
(* The mount instance as a value: what the helpers read and change.        *)
(* crash is set when a helper dereferences a buffer pointer that           *)
(* Get_FS_Buffer did not set, or indexes outside the inode table or the    *)
(* bitmap: from there on the kernel's behaviour is undefined.              *)
(***************************************************************************)
Machine(in, bs, ca) == [inodes |-> in, bitSet |-> bs, cache |-> ca, crash |-> FALSE]
Crash(m) == [m EXCEPT !.crash = TRUE]

HasFlag(flags, bit) == (flags \div bit) % 2 = 1

\* bits the bitmap has room for: FIND_NUM_BYTES(size) bytes
BitmapBits == 0 .. FIND_NUM_BYTES(NumDevBlocks) * 8 - 1

\* bitset.c is not in the source tree: first clear bit, -1 when there is none
Find_First_Free_Bit(bits, total) ==
    LET free == {b \in 0 .. FIND_NUM_BYTES(total) * 8 - 1 : b \notin bits}
    IN IF free = {} THEN -1 ELSE SetMin(free)

Set_Bit(m, b) ==
    IF b \in BitmapBits THEN [m EXCEPT !.bitSet = @ \cup {b}] ELSE Crash(m)
Clear_Bit(m, b) ==
    IF b \in BitmapBits THEN [m EXCEPT !.bitSet = @ \ {b}] ELSE Crash(m)

FindFreeInode(m) ==
    LET free == {i \in Inodes : m.inodes[i].flags = 0}
    IN IF free = {} THEN [rc |-> EUNSPECIFIED, inode |-> 0]
       ELSE [rc |-> OK, inode |-> SetMin(free)]

(***************************************************************************)
(* Directory operations                                                    *)
(***************************************************************************)
\* entries e of block blk for which P(entry) holds, as a set of indexes
RegularAt(blk) == {e \in EntryIdx : DirEntryAt(blk, e).type = GOSFS_DIRTYP_REGULAR}
FreeAt(blk) == {e \in EntryIdx : DirEntryAt(blk, e).type = GOSFS_DIRTYP_FREE}
NamedAt(blk, name) ==
    {e \in EntryIdx : /\ DirEntryAt(blk, e).type # GOSFS_DIRTYP_FREE
                      /\ DirEntryAt(blk, e).filename = name}
RefersAt(blk, inode) == {e \in EntryIdx : ToUlong(DirEntryAt(blk, e).inode) = inode}

RECURSIVE IsDirectoryEmptyFrom(_, _, _)
IsDirectoryEmptyFrom(m, ino, i) ==
    IF i >= GOSFS_NUM_DIRECT_BLOCKS THEN [rc |-> TRUE, crash |-> FALSE]
    ELSE LET blockNum == m.inodes[ino].blockList[i + 1]
         IN IF blockNum = 0 THEN IsDirectoryEmptyFrom(m, ino, i + 1)
            ELSE IF ~BlockOK(blockNum) THEN [rc |-> TRUE, crash |-> TRUE]
            ELSE IF RegularAt(m.cache[blockNum]) # {} THEN [rc |-> FALSE, crash |-> FALSE]
            ELSE IsDirectoryEmptyFrom(m, ino, i + 1)

\* variant: every directory is taken for empty
IsDirectoryEmpty_NoScan(m, ino) == [rc |-> TRUE, crash |-> FALSE]

IsDirectoryEmpty(m, ino) ==
    IF ~HasFlag(m.inodes[ino].flags, GOSFS_DIRENTRY_ISDIRECTORY)
    THEN [rc |-> TRUE, crash |-> FALSE]
    ELSE IsDirectoryEmptyFrom(m, ino, 0)

RECURSIVE RemoveDirEntryFrom(_, _, _, _)
RemoveDirEntryFrom(m, parentInode, inode, i) ==
    IF i >= GOSFS_NUM_DIRECT_BLOCKS THEN [m |-> m, rc |-> OK]
    ELSE LET blockNum == m.inodes[parentInode].blockList[i + 1]
         IN IF blockNum = 0 THEN RemoveDirEntryFrom(m, parentInode, inode, i + 1)
            ELSE IF ~BlockOK(blockNum) THEN [m |-> Crash(m), rc |-> OK]
            ELSE LET hits == RefersAt(m.cache[blockNum], inode)
                 IN IF hits = {} THEN RemoveDirEntryFrom(m, parentInode, inode, i + 1)
                    ELSE LET e == SetMin(hits)
                             sz == m.inodes[parentInode].size
                         IN [m |-> [m EXCEPT
                                      !.cache[blockNum] = PutDirEntry(@, e, FreeDirEntry),
                                      !.inodes[parentInode].size =
                                          IF sz # 0 THEN sz - 1 ELSE sz],
                             rc |-> OK]

RemoveDirEntryFromInode(m, parentInode, inode) ==
    IF parentInode \notin Inodes THEN [m |-> Crash(m), rc |-> OK]
    ELSE RemoveDirEntryFrom(m, parentInode, inode, 0)

\* first loop of AddDirectoryEntryToInode: a FREE entry of an existing block
RECURSIVE AddDirEntryScan(_, _, _, _)
AddDirEntryScan(m, parentInode, dirEntry, i) ==
    IF i >= GOSFS_NUM_DIRECT_BLOCKS THEN [m |-> m, rc |-> OK, found |-> FALSE]
    ELSE LET blockNum == m.inodes[parentInode].blockList[i + 1]
         IN IF blockNum = 0 THEN AddDirEntryScan(m, parentInode, dirEntry, i + 1)
            ELSE IF ~BlockOK(blockNum) THEN [m |-> m, rc |-> EUNSPECIFIED, found |-> FALSE]
            ELSE LET free == FreeAt(m.cache[blockNum])
                 IN IF free = {} THEN AddDirEntryScan(m, parentInode, dirEntry, i + 1)
                    ELSE [m |-> [m EXCEPT
                                   !.cache[blockNum] = PutDirEntry(@, SetMin(free), dirEntry),
                                   !.inodes[parentInode].size = ToUlong(@ + 1)],
                          rc |-> OK, found |-> TRUE]

\* second loop: a new block in the first zero direct slot
AddDirEntryNewBlock(m, parentInode, dirEntry) ==
    LET zero == {i \in 0 .. GOSFS_NUM_DIRECT_BLOCKS - 1 :
                    m.inodes[parentInode].blockList[i + 1] = 0}
    IN IF zero = {} THEN [m |-> m, rc |-> ENOSPACE]
       ELSE LET i == SetMin(zero)
                blockNum == ToUlong(Find_First_Free_Bit(m.bitSet, NumDevBlocks))
            IN IF blockNum = 0 THEN [m |-> m, rc |-> ENOSPACE]
               ELSE IF ~BlockOK(blockNum) THEN [m |-> m, rc |-> EUNSPECIFIED]
               ELSE [m |-> Set_Bit(
                             [m EXCEPT
                                !.cache[blockNum] =
                                    PutDirEntry(CreateNextDirectoryBlock(@), 0, dirEntry),
                                !.inodes[parentInode].blockList[i + 1] = blockNum,
                                !.inodes[parentInode].size = ToUlong(@ + 1)],
                             blockNum),
                     rc |-> OK]

AddDirectoryEntryToInode(m, parentInode, dirEntry) ==
    LET Scanned(s) ==
            IF s.rc # OK THEN [m |-> s.m, rc |-> s.rc]
            ELSE IF s.found THEN [m |-> s.m, rc |-> OK]
            ELSE AddDirEntryNewBlock(m, parentInode, dirEntry)
    IN IF parentInode \notin Inodes THEN [m |-> Crash(m), rc |-> EUNSPECIFIED]
       ELSE Scanned(AddDirEntryScan(m, parentInode, dirEntry, 0))

RECURSIVE FindInodeInDirectoryFrom(_, _, _, _)
FindInodeInDirectoryFrom(m, name, searchInode, i) ==
    IF i >= GOSFS_NUM_DIRECT_BLOCKS
    THEN [rc |-> EUNSPECIFIED, inode |-> searchInode, crash |-> FALSE]
    ELSE LET blockNum == m.inodes[searchInode].blockList[i + 1]
         IN IF blockNum = 0 THEN FindInodeInDirectoryFrom(m, name, searchInode, i + 1)
            ELSE IF ~BlockOK(blockNum)
                 THEN [rc |-> EUNSPECIFIED, inode |-> searchInode, crash |-> TRUE]
            ELSE LET hits == NamedAt(m.cache[blockNum], name)
                 IN IF hits = {} THEN FindInodeInDirectoryFrom(m, name, searchInode, i + 1)
                    ELSE [rc |-> OK,
                          inode |-> ToUlong(DirEntryAt(m.cache[blockNum], SetMin(hits)).inode),
                          crash |-> FALSE]

\* on failure *retInode is left as it was: inode is then searchInode's old value
FindInodeInDirectory(m, name, searchInode) ==
    IF searchInode \notin Inodes
    THEN [rc |-> EUNSPECIFIED, inode |-> searchInode, crash |-> TRUE]
    ELSE FindInodeInDirectoryFrom(m, name, searchInode, 0)

RECURSIVE FindInodeByPathLoop(_, _, _, _)
FindInodeByPathLoop(m, path, current, inode) ==
    LET c == NextPathComponent(path, current, GOSFS_FILENAME_MAX + 1)
        Looked(r) ==
            IF r.crash \/ r.rc # OK THEN [rc |-> r.rc, inode |-> inode, crash |-> r.crash]
            ELSE FindInodeByPathLoop(m, path, c.end, r.inode)
    IN IF c.end = 0 THEN [rc |-> OK, inode |-> inode, crash |-> FALSE]
       ELSE Looked(FindInodeInDirectory(m, NameCode(c.buf), inode))

\* every path of the model is absolute, so *retInode is always assigned
FindInodeByPath(m, path) ==
    IF path[1] # "/" THEN [rc |-> EUNSPECIFIED, inode |-> 0, crash |-> FALSE]
    ELSE IF path = <<"/">> THEN [rc |-> OK, inode |-> 0, crash |-> FALSE]
    ELSE FindInodeByPathLoop(m, path, 0, 0)

CreateFileInode(m, path) ==
    LET filename == LastName(path)
        parentpath == GetParentPath(path, GOSFS_FILENAME_MAX + 1).parent
        Added(a, inode) ==
            IF a.rc # OK THEN [m |-> a.m, rc |-> EUNSPECIFIED, inode |-> inode]
            ELSE [m |-> a.m, rc |-> OK, inode |-> inode]
        Parent(p, m1, inode) ==
            IF p.crash THEN [m |-> Crash(m1), rc |-> EUNSPECIFIED, inode |-> inode]
            ELSE IF p.rc # OK THEN [m |-> m1, rc |-> EUNSPECIFIED, inode |-> inode]
            ELSE Added(AddDirectoryEntryToInode(
                           m1, p.inode,
                           [filename |-> NameCode(filename),
                            type |-> GOSFS_DIRTYP_REGULAR, inode |-> inode]),
                       inode)
        Marked(m1, inode) == Parent(FindInodeByPath(m1, parentpath), m1, inode)
        Free(f) ==
            IF f.rc # OK THEN [m |-> m, rc |-> ENOSPACE, inode |-> 0]
            ELSE Marked([m EXCEPT !.inodes[f.inode].flags = GOSFS_DIRENTRY_USED,
                                  !.inodes[f.inode].acl = ZeroInode.acl],
                        f.inode)
    IN Free(FindFreeInode(m))

(***************************************************************************)
(* The block indexer.  inode->blockList[k] is plain C indexing: for        *)
(* k >= GOSFS_NUM_BLOCK_PTRS it is the word 2 + k words after the start of *)
(* the inode, which lies in a later inode of superblock.inodes (or past    *)
(* the end of the table).                                                  *)
(***************************************************************************)
SlotAddr(i, k) == i * SizeofDirEntry + 2 + k
InTable(a) == a \div SizeofDirEntry \in Inodes

ReadInodeWord(ins, a) ==
    LET j == a \div SizeofDirEntry
        f == a % SizeofDirEntry
    IN IF f = 0 THEN ins[j].size
       ELSE IF f = 1 THEN ins[j].flags
       ELSE IF f - 2 < GOSFS_NUM_BLOCK_PTRS THEN ins[j].blockList[f - 1]
       ELSE ins[j].acl[f - 1 - GOSFS_NUM_BLOCK_PTRS]

WriteInodeWord(ins, a, v) ==
    LET j == a \div SizeofDirEntry
        f == a % SizeofDirEntry
    IN IF f = 0 THEN [ins EXCEPT ![j].size = v]
       ELSE IF f = 1 THEN [ins EXCEPT ![j].flags = v]
       ELSE IF f - 2 < GOSFS_NUM_BLOCK_PTRS THEN [ins EXCEPT ![j].blockList[f - 1] = v]
       ELSE [ins EXCEPT ![j].acl[f - 1 - GOSFS_NUM_BLOCK_PTRS] = v]

\* a ulong_t read from cell off (from 0) of a block
PtrAt(blk, off) == ToUlong(blk[off * SizeofUlong + 1])

DirectLimit == GOSFS_NUM_DIRECT_BLOCKS
IndirectLimit ==
    GOSFS_NUM_DIRECT_BLOCKS + GOSFS_NUM_INDIRECT_BLOCKS * GOSFS_NUM_PTRS_PER_BLOCK
\* the ceiling IsFileBlockExists tests (part_000:881)
ExistsLimit ==
    IndirectLimit + GOSFS_NUM_2X_INDIRECT_BLOCKS * GOSFS_NUM_PTRS_PER_BLOCK * GOSFS_NUM_PTRS_PER_BLOCK
\* the ceiling CreateFileBlock tests (part_000:1171), on blockNum + 1
CreateLimit ==
    GOSFS_NUM_INDIRECT_BLOCKS * GOSFS_NUM_PTRS_PER_BLOCK * GOSFS_NUM_PTRS_PER_BLOCK
    + GOSFS_NUM_INDIRECT_PTR_PER_BLOCK * GOSFS_NUM_INDIRECT_BLOCKS + GOSFS_NUM_DIRECT_BLOCKS

\* single indirect: indirectPtr (from 1), indirectPtrOffset, inodePtr
Ind1Ptr(blockNum) ==
    (((blockNum + 1) - (GOSFS_NUM_DIRECT_BLOCKS + 1)) \div GOSFS_NUM_INDIRECT_PTR_PER_BLOCK) + 1
Ind1Offset(blockNum) ==
    ((blockNum + 1) - (GOSFS_NUM_DIRECT_BLOCKS + 1)) % GOSFS_NUM_INDIRECT_PTR_PER_BLOCK
Ind1Slot(blockNum) == GOSFS_NUM_DIRECT_BLOCKS + Ind1Ptr(blockNum) - 1

\* double indirect
Ind2Rest(blockNum) == (blockNum + 1) - (IndirectLimit + 1)
Ind2Ptr(blockNum) ==
    (Ind2Rest(blockNum)
        \div (GOSFS_NUM_INDIRECT_PTR_PER_BLOCK * GOSFS_NUM_INDIRECT_PTR_PER_BLOCK)) + 1
Ind2Offset(blockNum) == Ind2Rest(blockNum) \div GOSFS_NUM_INDIRECT_PTR_PER_BLOCK
Ind2Offset2x(blockNum) == Ind2Rest(blockNum) % GOSFS_NUM_INDIRECT_PTR_PER_BLOCK
Ind2Slot(blockNum) ==
    GOSFS_NUM_DIRECT_BLOCKS + (GOSFS_NUM_INDIRECT_BLOCKS * GOSFS_NUM_PTRS_PER_BLOCK)
    + Ind2Ptr(blockNum) - 1

PtrOffsets == 0 .. GOSFS_NUM_PTRS_PER_BLOCK - 1

IsFileBlockExists(m, i, blockNum) ==
    IF blockNum >= ExistsLimit THEN [rc |-> FALSE, crash |-> FALSE]
    ELSE IF blockNum < DirectLimit
    THEN [rc |-> m.inodes[i].blockList[blockNum + 1] # 0, crash |-> FALSE]
    ELSE IF blockNum < IndirectLimit
    THEN LET indirectBlock == m.inodes[i].blockList[Ind1Slot(blockNum) + 1]
         IN IF indirectBlock = 0 THEN [rc |-> FALSE, crash |-> FALSE]
            ELSE IF ~BlockOK(indirectBlock) THEN [rc |-> FALSE, crash |-> TRUE]
            ELSE [rc |-> PtrAt(m.cache[indirectBlock], Ind1Offset(blockNum)) > 0,
                  crash |-> FALSE]
    ELSE LET a == SlotAddr(i, Ind2Slot(blockNum))
         IN IF ~InTable(a) THEN [rc |-> FALSE, crash |-> TRUE]
            ELSE LET indirectBlock == ReadInodeWord(m.inodes, a)
                 IN IF indirectBlock = 0 THEN [rc |-> FALSE, crash |-> FALSE]
                    ELSE IF ~BlockOK(indirectBlock) THEN [rc |-> FALSE, crash |-> TRUE]
                    ELSE LET phyIndBlock ==
                                 PtrAt(m.cache[indirectBlock], Ind2Offset(blockNum))
                         IN IF phyIndBlock = 0 THEN [rc |-> FALSE, crash |-> FALSE]
                            ELSE IF ~BlockOK(phyIndBlock) THEN [rc |-> FALSE, crash |-> TRUE]
                            ELSE [rc |-> PtrAt(m.cache[phyIndBlock],
                                               Ind2Offset2x(blockNum)) > 0,
                                  crash |-> FALSE]

\* returns the block as a ulong_t (ToUlong(-1) when the allocator reports failure)
GetNewFreeBlock(m) ==
    LET freeBlock == ToUlong(Find_First_Free_Bit(m.bitSet, NumDevBlocks))
    IN IF freeBlock = 0 THEN [m |-> m, ret |-> ToUlong(-1)]
       ELSE IF ~BlockOK(freeBlock) THEN [m |-> Crash(m), ret |-> freeBlock]
       ELSE [m |-> Set_Bit([m EXCEPT !.cache[freeBlock] = ZeroBlock], freeBlock),
             ret |-> freeBlock]

\* the value it returns, as the int the function is declared to return
GetPhysicalBlockByLogical(m, i, blockNum) ==
    IF blockNum < DirectLimit
    THEN [ret |-> ToInt(m.inodes[i].blockList[blockNum + 1]), crash |-> FALSE]
    ELSE IF blockNum < IndirectLimit
    THEN LET indirectBlock == ToInt(m.inodes[i].blockList[Ind1Slot(blockNum) + 1])
         IN IF indirectBlock = 0 THEN [ret |-> -1, crash |-> FALSE]
            ELSE IF ~BlockOK(indirectBlock) THEN [ret |-> -1, crash |-> TRUE]
            ELSE [ret |-> ToInt(PtrAt(m.cache[indirectBlock], Ind1Offset(blockNum))),
                  crash |-> FALSE]
    ELSE LET a == SlotAddr(i, Ind2Slot(blockNum))
         IN IF ~InTable(a) THEN [ret |-> -1, crash |-> TRUE]
            ELSE LET indirectBlock == ToInt(ReadInodeWord(m.inodes, a))
                 IN IF indirectBlock = 0 THEN [ret |-> -1, crash |-> FALSE]
                    ELSE IF ~BlockOK(indirectBlock) \/ Ind2Offset(blockNum) \notin PtrOffsets
                         THEN [ret |-> -1, crash |-> TRUE]
                    ELSE LET phyIndBlock ==
                                 ToInt(PtrAt(m.cache[indirectBlock], Ind2Offset(blockNum)))
                         IN IF ~BlockOK(phyIndBlock) THEN [ret |-> -1, crash |-> TRUE]
                            ELSE [ret |-> ToInt(PtrAt(m.cache[phyIndBlock],
                                                      Ind2Offset2x(blockNum))),
                                  crash |-> FALSE]

WriteIndirectBlockEntry(m, numBlock, offset, freeBlock) ==
    IF ~BlockOK(numBlock) THEN Crash(m)
    ELSE [m EXCEPT !.cache[numBlock][offset * SizeofUlong + 1] = freeBlock]

CreateFileBlockIndirect(m, i, bn, freeBlock) ==
    LET inodePtr == Ind1Slot(bn - 1)
        old == ToInt(m.inodes[i].blockList[inodePtr + 1])
        Store(m1, indirectBlock) ==
            IF m1.crash THEN [m |-> m1, rc |-> EUNSPECIFIED]
            ELSE [m |-> WriteIndirectBlockEntry(m1, indirectBlock, Ind1Offset(bn - 1),
                                                freeBlock),
                  rc |-> OK]
        Fresh(g) ==
            Store([g.m EXCEPT !.inodes[i].blockList[inodePtr + 1] = g.ret], ToInt(g.ret))
    IN IF old = 0 THEN Fresh(GetNewFreeBlock(m)) ELSE Store(m, old)

CreateFileBlock2x(m, i, bn, freeBlock) ==
    LET a == SlotAddr(i, Ind2Slot(bn - 1))
        Enter2x(m2, phyIndBlock) ==
            [m |-> WriteIndirectBlockEntry(m2, phyIndBlock, Ind2Offset2x(bn - 1), freeBlock),
             rc |-> OK]
        Second(g2, indirectBlock) ==
            IF g2.m.crash THEN [m |-> g2.m, rc |-> EUNSPECIFIED]
            ELSE IF g2.ret = 0 THEN [m |-> g2.m, rc |-> EUNSPECIFIED]
            ELSE Enter2x(WriteIndirectBlockEntry(g2.m, indirectBlock, Ind2Offset(bn - 1),
                                                 g2.ret),
                         g2.ret)
        First(m1, indirectBlock) ==
            IF m1.crash \/ ~BlockOK(indirectBlock) THEN [m |-> Crash(m1), rc |-> EUNSPECIFIED]
            ELSE LET oldInd == PtrAt(m1.cache[indirectBlock], Ind2Offset(bn - 1))
                 IN IF oldInd = 0 THEN Second(GetNewFreeBlock(m1), indirectBlock)
                    ELSE Enter2x(m1, oldInd)
        Fresh(g) == First([g.m EXCEPT !.inodes = WriteInodeWord(@, a, g.ret)], ToInt(g.ret))
    IN IF ~InTable(a) THEN [m |-> Crash(m), rc |-> EUNSPECIFIED]
       ELSE LET old == ToInt(ReadInodeWord(m.inodes, a))
            IN IF old = 0 THEN Fresh(GetNewFreeBlock(m)) ELSE First(m, old)

CreateFileBlock(m, i, blockNum) ==
    LET bn == blockNum + 1
        Place(g) ==
            LET freeBlock == ToInt(g.ret)
            IN IF g.m.crash THEN [m |-> g.m, rc |-> EUNSPECIFIED]
               ELSE IF freeBlock <= 0 THEN [m |-> g.m, rc |-> EUNSPECIFIED]
               ELSE IF bn <= GOSFS_NUM_DIRECT_BLOCKS
               THEN [m |-> [g.m EXCEPT !.inodes[i].blockList[bn] = freeBlock], rc |-> OK]
               ELSE IF bn <= GOSFS_NUM_INDIRECT_PTR_PER_BLOCK * GOSFS_NUM_INDIRECT_BLOCKS
                             + GOSFS_NUM_DIRECT_BLOCKS
               THEN CreateFileBlockIndirect(g.m, i, bn, freeBlock)
               ELSE IF bn <= CreateLimit
               THEN CreateFileBlock2x(g.m, i, bn, freeBlock)
               ELSE [m |-> g.m, rc |-> EUNSPECIFIED]
    IN Place(GetNewFreeBlock(m))

(***************************************************************************)
(* File operations on an open struct File f:                               *)
(* [kind, inode, filePos, endPos, mode].  mode is the set of O_ flags.     *)
(***************************************************************************)
O_CREATE == "O_CREATE"
O_READ == "O_READ"
O_WRITE == "O_WRITE"

\* memcpy(p_buff->data + from, buf + done, num)
CopyIn(blk, from, buf, done, num) ==
    [c \in 1 .. GOSFS_FS_BLOCK_SIZE |->
        IF c - 1 >= from /\ c - 1 < from + num THEN buf[done + (c - 1 - from) + 1]
        ELSE blk[c]]

RECURSIVE WriteLoop(_, _, _, _, _, _)
WriteLoop(m, f, i, numBytes, buf, bytesWritten) ==
    LET startBlock == f.filePos \div GOSFS_FS_BLOCK_SIZE
        startBlockOffset == f.filePos % GOSFS_FS_BLOCK_SIZE
        endBlock == ToUlong(f.filePos + numBytes) \div GOSFS_FS_BLOCK_SIZE
        writeFrom == IF i = startBlock THEN startBlockOffset ELSE 0
        room == GOSFS_FS_BLOCK_SIZE - writeFrom
        writeNum == IF room > numBytes - bytesWritten THEN numBytes - bytesWritten ELSE room
        Copy(mc, g) ==
            LET phyBlock == ToUlong(g.ret)
            IN IF g.crash THEN [m |-> Crash(mc), rc |-> EUNSPECIFIED, n |-> bytesWritten]
               ELSE IF phyBlock = 0 THEN [m |-> mc, rc |-> ENOSPACE, n |-> bytesWritten]
               ELSE IF ~BlockOK(phyBlock)
                    THEN [m |-> mc, rc |-> EUNSPECIFIED, n |-> bytesWritten]
               ELSE WriteLoop([mc EXCEPT !.cache[phyBlock] =
                                  CopyIn(@, writeFrom, buf, bytesWritten, writeNum)],
                              f, i + 1, numBytes, buf, bytesWritten + writeNum)
        Created(c) ==
            IF c.m.crash \/ c.rc # OK THEN [m |-> c.m, rc |-> c.rc, n |-> bytesWritten]
            ELSE Copy(c.m, GetPhysicalBlockByLogical(c.m, f.inode, i))
        Exists(e) ==
            IF e.crash THEN [m |-> Crash(m), rc |-> EUNSPECIFIED, n |-> bytesWritten]
            ELSE IF e.rc THEN Copy(m, GetPhysicalBlockByLogical(m, f.inode, i))
            ELSE Created(CreateFileBlock(m, f.inode, i))
    IN IF i > endBlock THEN [m |-> m, rc |-> OK, n |-> bytesWritten]
       ELSE Exists(IsFileBlockExists(m, f.inode, i))

\* variant: the inode size and the end position are never updated
DoWrite_NoGrow(m, f, numBytes, buf) ==
    LET Written(w) ==
            IF w.m.crash \/ w.rc # OK THEN [m |-> w.m, f |-> f, rc |-> w.rc, n |-> w.n]
            ELSE [m |-> w.m, f |-> [f EXCEPT !.filePos = ToUlong(@ + numBytes)],
                  rc |-> OK, n |-> w.n]
    IN IF O_WRITE \notin f.mode THEN [m |-> m, f |-> f, rc |-> EACCESS, n |-> 0]
       ELSE Written(WriteLoop(m, f, f.filePos \div GOSFS_FS_BLOCK_SIZE, numBytes, buf, 0))

\* returns the machine, the file, rc and (when rc is OK) the byte count
DoWrite(m, f, numBytes, buf) ==
    LET newEnd == ToUlong(f.filePos + numBytes)
        Written(w) ==
            IF w.m.crash \/ w.rc # OK THEN [m |-> w.m, f |-> f, rc |-> w.rc, n |-> w.n]
            ELSE LET grow == newEnd > w.m.inodes[f.inode].size
                 IN [m |-> IF grow THEN [w.m EXCEPT !.inodes[f.inode].size = newEnd]
                           ELSE w.m,
                     f |-> [f EXCEPT !.filePos = newEnd,
                                     !.endPos = IF grow THEN newEnd ELSE @],
                     rc |-> OK, n |-> w.n]
    IN IF O_WRITE \notin f.mode THEN [m |-> m, f |-> f, rc |-> EACCESS, n |-> 0]
       ELSE Written(WriteLoop(m, f, f.filePos \div GOSFS_FS_BLOCK_SIZE, numBytes, buf, 0))

\* offset is file->filePos as read before the lock was taken
RECURSIVE ReadLoop(_, _, _, _, _, _)
ReadLoop(m, f, offset, i, numBytes, data) ==
    LET startBlock == offset \div GOSFS_FS_BLOCK_SIZE
        readTo == ToUlong(offset + numBytes - 1)
        endBlock == readTo \div GOSFS_FS_BLOCK_SIZE
        bytesRead == Len(data)
        readFrom == IF i = startBlock THEN offset % GOSFS_FS_BLOCK_SIZE ELSE 0
        r0 == GOSFS_FS_BLOCK_SIZE - readFrom
        r1 == IF bytesRead + r0 > numBytes THEN numBytes - bytesRead ELSE r0
        readNum == IF r1 + bytesRead + offset > f.endPos
                   THEN f.endPos - offset - bytesRead ELSE r1
        Copy(g) ==
            LET phyBlock == ToUlong(g.ret)
            IN IF g.crash THEN [crash |-> TRUE, rc |-> EUNSPECIFIED, data |-> data]
               ELSE IF phyBlock = 0 THEN [crash |-> FALSE, rc |-> EUNSPECIFIED, data |-> data]
               ELSE IF ~BlockOK(phyBlock) \/ readNum < 0
                    THEN [crash |-> TRUE, rc |-> EUNSPECIFIED, data |-> data]
               ELSE ReadLoop(m, f, offset, i + 1, numBytes,
                             data \o [k \in 1 .. readNum |-> m.cache[phyBlock][readFrom + k]])
    IN IF i > endBlock THEN [crash |-> FALSE, rc |-> OK, data |-> data]
       ELSE Copy(GetPhysicalBlockByLogical(m, f.inode, i))

\* variant: the O_READ bit of the file mode is not tested
DoRead_AnyMode(m, f, offset, numBytes) ==
    LET Done(r) ==
            IF r.crash \/ r.rc # OK
            THEN [crash |-> r.crash, f |-> f, rc |-> r.rc, data |-> r.data]
            ELSE [crash |-> FALSE,
                  f |-> [f EXCEPT !.filePos = ToUlong(@ + numBytes)],
                  rc |-> OK, data |-> r.data]
    IN IF f.filePos >= f.endPos
       THEN [crash |-> FALSE, f |-> f, rc |-> OK, data |-> <<>>]
       ELSE Done(ReadLoop(m, f, offset, offset \div GOSFS_FS_BLOCK_SIZE, numBytes, <<>>))

DoRead(m, f, offset, numBytes) ==
    LET Done(r) ==
            IF r.crash \/ r.rc # OK
            THEN [crash |-> r.crash, f |-> f, rc |-> r.rc, data |-> r.data]
            ELSE [crash |-> FALSE,
                  f |-> [f EXCEPT !.filePos = ToUlong(@ + numBytes)],
                  rc |-> OK, data |-> r.data]
    IN IF O_READ \notin f.mode
       THEN [crash |-> FALSE, f |-> f, rc |-> EACCESS, data |-> <<>>]
       ELSE IF f.filePos >= f.endPos
       THEN [crash |-> FALSE, f |-> f, rc |-> OK, data |-> <<>>]
       ELSE Done(ReadLoop(m, f, offset, offset \div GOSFS_FS_BLOCK_SIZE, numBytes, <<>>))

(***************************************************************************)
(* Mount-point operations as functions of the mount instance               *)
(***************************************************************************)
DoOpen(m, path, mode) ==
    LET Created(c) ==
            IF c.m.crash \/ c.rc # OK THEN [m |-> c.m, rc |-> EUNSPECIFIED, inode |-> 0]
            ELSE [m |-> c.m, rc |-> OK, inode |-> c.inode]
        Found(r) ==
            IF r.crash THEN [m |-> Crash(m), rc |-> EUNSPECIFIED, inode |-> 0]
            ELSE IF r.rc = OK THEN [m |-> m, rc |-> OK, inode |-> r.inode]
            ELSE IF O_CREATE \notin mode THEN [m |-> m, rc |-> ENOTFOUND, inode |-> 0]
            ELSE Created(CreateFileInode(m, path))
    IN Found(FindInodeByPath(m, path))

\* u is the value of the uninitialised freeInode when no inode is free
DoCreateDirectory(m, path, u) ==
    LET parentpath == GetParentPath(path, GOSFS_FILENAME_MAX + 1).parent
        fi == FindFreeInode(m)
        freeInode == IF fi.rc = OK THEN fi.inode ELSE u
        filename == LastName(path)
        dirEntry == [filename |-> NameCode(filename), type |-> GOSFS_DIRTYP_REGULAR,
                     inode |-> freeInode]
        Added(a) ==
            LET freeBlock == ToUlong(Find_First_Free_Bit(a.m.bitSet, NumDevBlocks))
            IN IF a.m.crash THEN [m |-> Crash(m), rc |-> EUNSPECIFIED]
               ELSE IF freeBlock = 0 \/ ~BlockOK(freeBlock)
                    THEN [m |-> a.m, rc |-> EUNSPECIFIED]
               ELSE IF freeInode \notin Inodes THEN [m |-> Crash(a.m), rc |-> EUNSPECIFIED]
               ELSE [m |-> [Set_Bit([a.m EXCEPT !.cache[freeBlock] =
                                         CreateFirstDirectoryBlock(freeInode, @, filename)],
                                    freeBlock)
                            EXCEPT !.inodes[freeInode].size = 1,
                                   !.inodes[freeInode].flags =
                                       GOSFS_DIRENTRY_ISDIRECTORY + GOSFS_DIRENTRY_USED,
                                   !.inodes[freeInode].acl = ZeroInode.acl,
                                   !.inodes[freeInode].blockList[1] = freeBlock],
                     rc |-> OK]
        Looked(t, parentInode) ==
            IF t.crash THEN [m |-> Crash(m), rc |-> EUNSPECIFIED]
            ELSE Added(AddDirectoryEntryToInode(m, parentInode, dirEntry))
        Parent(p) ==
            IF p.crash THEN [m |-> Crash(m), rc |-> EUNSPECIFIED]
            ELSE Looked(FindInodeInDirectory(m, NameCode(filename), p.inode), p.inode)
    IN Parent(FindInodeByPath(m, parentpath))

\* Clear_Bit for every block number of S
ClearBits(m, S) ==
    IF S \subseteq BitmapBits THEN [m EXCEPT !.bitSet = @ \ S] ELSE Crash(m)

\* the non-zero ulong_t cells of a pointer block
PointersIn(blk) ==
    {PtrAt(blk, e) : e \in 0 .. GOSFS_NUM_INDIRECT_PTR_PER_BLOCK - 1} \ {0}

DirectBlocksOf(ino) ==
    {ino.blockList[i + 1] : i \in 0 .. GOSFS_NUM_DIRECT_BLOCKS - 1} \ {0}

\* the loop over blockList[GOSFS_NUM_DIRECT_BLOCKS + i]; Get_FS_Buffer's result
\* is not looked at
DeleteIndirect(m, ino) ==
    LET blockNum == ino.blockList[GOSFS_NUM_DIRECT_BLOCKS + 1]
    IN IF blockNum = 0 THEN m
       ELSE IF ~BlockOK(blockNum) THEN Crash(m)
       ELSE ClearBits(m, PointersIn(m.cache[blockNum]) \cup {blockNum})

\* the loop over blockList[GOSFS_NUM_DIRECT_BLOCKS + GOSFS_NUM_INDIRECT_BLOCKS + i]
Delete2xIndirect(m, ino) ==
    LET blockNum == ino.blockList[GOSFS_NUM_DIRECT_BLOCKS + GOSFS_NUM_INDIRECT_BLOCKS + 1]
    IN IF blockNum = 0 THEN [m |-> m, rc |-> OK]
       ELSE IF ~BlockOK(blockNum) THEN [m |-> m, rc |-> EUNSPECIFIED]
       ELSE [m |-> ClearBits(m, PointersIn(m.cache[blockNum]) \cup {blockNum}), rc |-> OK]

DoDelete(m, path) ==
    LET parentPath == GetParentPath(path, GOSFS_FILENAME_MAX + 1).parent
        Remove(d3, parentInodeNum, inodeNum) ==
            IF d3.m.crash \/ d3.rc # OK THEN d3
            ELSE RemoveDirEntryFromInode(d3.m, parentInodeNum, inodeNum)
        Free2x(m2, parentInodeNum, inodeNum) ==
            Remove(IF m2.crash THEN [m |-> m2, rc |-> EUNSPECIFIED]
                   ELSE Delete2xIndirect(m2, m.inodes[inodeNum]),
                   parentInodeNum, inodeNum)
        FreeIndirect(m1, parentInodeNum, inodeNum) ==
            Free2x(IF m1.crash THEN m1 ELSE DeleteIndirect(m1, m.inodes[inodeNum]),
                   parentInodeNum, inodeNum)
        Parent(pp, inodeNum) ==
            IF pp.crash THEN [m |-> Crash(m), rc |-> EUNSPECIFIED]
            ELSE FreeIndirect(ClearBits(m, DirectBlocksOf(m.inodes[inodeNum])),
                              pp.inode, inodeNum)
        Empty(em, inodeNum) ==
            IF em.crash THEN [m |-> Crash(m), rc |-> EUNSPECIFIED]
            ELSE IF ~em.rc THEN [m |-> m, rc |-> EUNSPECIFIED]
            ELSE Parent(FindInodeByPath(m, parentPath), inodeNum)
        Found(r) ==
            IF r.crash \/ r.inode \notin Inodes THEN [m |-> Crash(m), rc |-> EUNSPECIFIED]
            ELSE Empty(IsDirectoryEmpty(m, r.inode), r.inode)
    IN Found(FindInodeByPath(m, path))

DoStat(m, path) ==
    LET none == [crash |-> FALSE, rc |-> ENOTFOUND, size |-> 0, isDirectory |-> 0]
        Found(r) ==
            IF r.crash THEN [none EXCEPT !.crash = TRUE]
            ELSE IF r.rc # OK THEN none
            ELSE IF r.inode \notin Inodes THEN [none EXCEPT !.crash = TRUE]
            ELSE LET ino == m.inodes[r.inode]
                 IN IF ~HasFlag(ino.flags, GOSFS_DIRENTRY_USED)
                    THEN [none EXCEPT !.size = ino.size]
                    ELSE [crash |-> FALSE, rc |-> OK, size |-> ino.size,
                          isDirectory |-> IF HasFlag(ino.flags, GOSFS_DIRENTRY_ISDIRECTORY)
                                          THEN 1 ELSE 0]
    IN IF path = <<"/">> THEN Found([rc |-> OK, inode |-> 0, crash |-> FALSE])
       ELSE Found(FindInodeByPath(m, path))

\* the entries of a block that are not FREE, in order, from entry e on
RECURSIVE EntriesFrom(_, _)
EntriesFrom(blk, e) ==
    IF e >= GOSFS_DIR_ENTRIES_PER_BLOCK THEN <<>>
    ELSE (IF DirEntryAt(blk, e).type # GOSFS_DIRTYP_FREE THEN <<DirEntryAt(blk, e)>>
          ELSE <<>>) \o EntriesFrom(blk, e + 1)

\* the copy loop of GOSFS_Open_Directory over the direct blocks from i on;
\* Get_FS_Buffer's result is not looked at
RECURSIVE ReadDirectoryFrom(_, _, _)
ReadDirectoryFrom(m, ino, i) ==
    LET blockNum == ino.blockList[i + 1]
        Prepend(rest) ==
            IF blockNum = 0 THEN rest
            ELSE IF ~BlockOK(blockNum) THEN [crash |-> TRUE, found |-> <<>>]
            ELSE [crash |-> rest.crash,
                  found |-> EntriesFrom(m.cache[blockNum], 0) \o rest.found]
    IN IF i >= GOSFS_NUM_DIRECT_BLOCKS THEN [crash |-> FALSE, found |-> <<>>]
       ELSE Prepend(ReadDirectoryFrom(m, ino, i + 1))

\* dirEntries has room for inode->size entries: copying more writes past it
DoOpenDirectory(m, path) ==
    LET Copied(d, inode) ==
            IF d.crash \/ Len(d.found) > m.inodes[inode].size
            THEN [crash |-> TRUE, rc |-> EUNSPECIFIED, f |-> NoFile]
            ELSE [crash |-> FALSE, rc |-> OK,
                  f |-> FileRec("dir", inode, m.inodes[inode].size, {O_READ}, d.found)]
        Found(r) ==
            IF r.crash THEN [crash |-> TRUE, rc |-> EUNSPECIFIED, f |-> NoFile]
            ELSE IF r.rc # OK THEN [crash |-> FALSE, rc |-> r.rc, f |-> NoFile]
            ELSE IF r.inode \notin Inodes
                 THEN [crash |-> TRUE, rc |-> EUNSPECIFIED, f |-> NoFile]
            ELSE Copied(ReadDirectoryFrom(m, m.inodes[r.inode], 0), r.inode)
    IN IF path = <<"/">> THEN Found([rc |-> OK, inode |-> 0, crash |-> FALSE])
       ELSE Found(FindInodeByPath(m, path))

\* what lies behind the end of dirEntries when GOSFS_Read_Entry reads there
GarbageEntries ==
    {[filename |-> 0, type |-> GOSFS_DIRTYP_REGULAR, inode |-> 0],
     [filename |-> 1, type |-> GOSFS_DIRTYP_REGULAR, inode |-> GOSFS_NUM_INODES]}

\* g is the entry read when filePos + 1 is past the copied entries
DoReadEntry(m, f, g) ==
    LET none == [crash |-> FALSE, rc |-> VFS_NO_MORE_DIR_ENTRIES, f |-> f,
                 name |-> 0, size |-> 0]
    IN IF f.filePos >= f.endPos THEN none
       ELSE LET offset == f.filePos + 1
                directory == IF offset < Len(f.entries) THEN f.entries[offset + 1] ELSE g
                inode == ToUlong(directory.inode)
            IN IF inode \notin Inodes THEN [none EXCEPT !.crash = TRUE, !.rc = EUNSPECIFIED]
               ELSE [crash |-> FALSE, rc |-> OK,
                     f |-> [f EXCEPT !.filePos = @ + 1],
                     name |-> directory.filename, size |-> m.inodes[inode].size]

(***************************************************************************)
(* The superblock as it lies in blocks 0 .. : magic, supersize, size, the  *)
(* inode table, the bitmap bytes                                           *)
(***************************************************************************)
ByteCountSuperblock(numBlocks) ==
    SizeofSuperblockHeader + GOSFS_NUM_INODES * SizeofDirEntry + FIND_NUM_BYTES(numBlocks)
BlockCountSuperblock(numBlocks) == FindNumBlocks(ByteCountSuperblock(numBlocks))

RECURSIVE Pow2(_)
Pow2(j) == IF j = 0 THEN 1 ELSE 2 * Pow2(j - 1)
RECURSIVE BitmapByteFrom(_, _, _)
BitmapByteFrom(bits, k, j) ==
    IF j > 7 THEN 0
    ELSE (IF 8 * k + j \in bits THEN Pow2(j) ELSE 0) + BitmapByteFrom(bits, k, j + 1)
BitmapByte(bits, k) == BitmapByteFrom(bits, k, 0)

InodeTableWords == GOSFS_NUM_INODES * SizeofDirEntry

\* the w-th word of struct GOSFS_Superblock, w from 0
SuperblockWord(in, bs, w) ==
    IF w = 0 THEN GOSFS_MAGIC
    ELSE IF w = 1 THEN ByteCountSuperblock(NumDevBlocks)
    ELSE IF w = 2 THEN NumDevBlocks
    ELSE IF w - SizeofSuperblockHeader < InodeTableWords
    THEN ReadInodeWord(in, w - SizeofSuperblockHeader)
    ELSE BitmapByte(bs, w - SizeofSuperblockHeader - InodeTableWords)

\* the copy loop of GOSFS_Format and of WriteSuperblock
WriteSuperblock(ca, in, bs) ==
    LET supersize == ByteCountSuperblock(NumDevBlocks)
    IN [b \in Blocks |->
          IF b < FindNumBlocks(supersize)
          THEN [c \in 1 .. GOSFS_FS_BLOCK_SIZE |->
                   IF b * GOSFS_FS_BLOCK_SIZE + c - 1 < supersize
                   THEN SuperblockWord(in, bs, b * GOSFS_FS_BLOCK_SIZE + c - 1)
                   ELSE ca[b][c]]
          ELSE ca[b]]

\* the copy loop of GOSFS_Mount: word w of the blocks
DiskWord(ca, w) == ca[w \div GOSFS_FS_BLOCK_SIZE][(w % GOSFS_FS_BLOCK_SIZE) + 1]
ReadInode(ca, i) ==
    LET base == SizeofSuperblockHeader + i * SizeofDirEntry
    IN [size |-> DiskWord(ca, base),
        flags |-> DiskWord(ca, base + 1),
        blockList |-> [k \in 1 .. GOSFS_NUM_BLOCK_PTRS |-> DiskWord(ca, base + 1 + k)],
        acl |-> [k \in 1 .. VFS_MAX_ACL_ENTRIES |->
                    DiskWord(ca, base + 1 + GOSFS_NUM_BLOCK_PTRS + k)]]
ReadBitSet(ca) ==
    {b \in BitmapBits :
        (DiskWord(ca, SizeofSuperblockHeader + InodeTableWords + (b \div 8))
            \div Pow2(b % 8)) % 2 = 1}

(***************************************************************************)
(* The operations                                                          *)
(***************************************************************************)
Paths == {<<"/">>, <<"/", "a">>, <<"/", "b">>, <<"/", "a", "/", "a">>}
OpenModes == {{O_READ}, {O_WRITE, O_CREATE}, {O_READ, O_WRITE, O_CREATE}}
WriteLens == {0, 1, GOSFS_FS_BLOCK_SIZE - 1, GOSFS_FS_BLOCK_SIZE, GOSFS_FS_BLOCK_SIZE + 1}
ReadLens == {0, 1, GOSFS_FS_BLOCK_SIZE + 1}
SeekPositions ==
    {0, DirectLimit * GOSFS_FS_BLOCK_SIZE, IndirectLimit * GOSFS_FS_BLOCK_SIZE,
     (CreateLimit - 1) * GOSFS_FS_BLOCK_SIZE}
\* the user's buffer: numBytes cells, none of them zero
UserBuf(numBytes) == [k \in 1 .. numBytes |-> 1 + (k % 3)]
Handles == 1 .. MaxFiles

M == Machine(inodes, bitSet, cache)
Commit(m) ==
    /\ inodes' = m.inodes
    /\ bitSet' = m.bitSet
    /\ cache' = m.cache
    /\ crashed' = m.crash
Ready == mounted /\ ~crashed /\ nops < MaxOps

\* what Malloc hands to GOSFS_Format: the memory is not cleared, every word
\* and byte of it holds fill
HeapFills == {0, 1}
HeapInode(fill) ==
    [size |-> fill, flags |-> fill,
     blockList |-> [k \in 1 .. GOSFS_NUM_BLOCK_PTRS |-> fill],
     acl |-> [k \in 1 .. VFS_MAX_ACL_ENTRIES |-> fill]]
HeapBits(fill) == {b \in BitmapBits : (fill \div Pow2(b % 8)) % 2 = 1}

\* what GOSFS_Format leaves in the blocks: the root directory block, then
\* the superblock image.  Of the Malloc'ed superblock it sets magic, size,
\* supersize, the bits 0 .. blockCountSuperblock and size, flags, acl and
\* blockList[0] of inode 0; the rest is written as Malloc left it.
FormatDisk(ca, fill) ==
    LET bcs == BlockCountSuperblock(NumDevBlocks)
        root == [HeapInode(fill) EXCEPT
                    !.size = 1,
                    !.flags = GOSFS_DIRENTRY_ISDIRECTORY + GOSFS_DIRENTRY_USED,
                    !.acl = ZeroInode.acl,
                    !.blockList[1] = bcs]
        sbInodes == [i \in Inodes |-> IF i = 0 THEN root ELSE HeapInode(fill)]
    IN WriteSuperblock([ca EXCEPT ![bcs] = CreateFirstDirectoryBlock(0, ca[bcs], <<"/">>)],
                       sbInodes, (0 .. bcs) \cup HeapBits(fill))

\* GOSFS_Format works on a buffer cache of its own; Destroy_FS_Buffer_Cache at
\* finish writes the modified buffers to the device
GOSFS_Format(fill) ==
    /\ ~mounted /\ ~crashed
    /\ IF BlockOK(BlockCountSuperblock(NumDevBlocks))
       THEN /\ cache' = FormatDisk(disk, fill)
            /\ disk' = FormatDisk(disk, fill)
            /\ last' = Last("format", OK, <<>>, 0, fill, 0, <<>>)
       ELSE /\ UNCHANGED <<cache, disk>>
            /\ last' = Last("format", EUNSPECIFIED, <<>>, 0, fill, 0, <<>>)
    /\ UNCHANGED <<mounted, inodes, bitSet, files, pinned, crashed, nops>>
    /\ UNCHANGED tvars

GOSFS_Mount ==
    /\ ~mounted /\ ~crashed
    /\ IF DiskWord(cache, 0) # GOSFS_MAGIC
       THEN \* goto finish with block 0 still pinned
            /\ pinned < MaxPinned
            /\ pinned' = pinned + 1
            /\ last' = Last("mount", EUNSPECIFIED, <<>>, 0, 0, 0, <<>>)
            /\ UNCHANGED <<mounted, inodes, bitSet>>
       ELSE /\ mounted' = TRUE
            /\ inodes' = [i \in Inodes |-> ReadInode(cache, i)]
            /\ bitSet' = ReadBitSet(cache)
            /\ last' = Last("mount", OK, <<>>, 0, 0, 0, <<>>)
            /\ UNCHANGED pinned
    /\ UNCHANGED <<cache, disk, files, crashed, nops>>
    /\ UNCHANGED tvars

\* WriteSuperblock copies the instance's superblock into the buffers of its
\* blocks and marks them modified; GOSFS_Sync does not go on to
\* Sync_FS_Buffer_Cache, so no buffer is written to the device
GOSFS_Sync ==
    /\ Ready
    /\ cache' = WriteSuperblock(cache, inodes, bitSet)
    /\ last' = Last("sync", OK, <<>>, 0, 0, 0, <<>>)
    /\ nops' = nops + 1
    /\ UNCHANGED <<mounted, disk, inodes, bitSet, files, pinned, crashed>>
    /\ UNCHANGED tvars

GOSFS_Open(path, mode) ==
    /\ Ready
    /\ \E h \in Handles :
        /\ files[h].kind = "none"
        /\ \A g \in Handles : g < h => files[g].kind # "none"
        /\ LET Opened(r) ==
                   LET bad == r.rc = OK /\ r.inode \notin Inodes
                   IN /\ Commit(IF bad THEN Crash(r.m) ELSE r.m)
                      /\ files' = IF r.m.crash \/ bad \/ r.rc # OK THEN files
                                  ELSE [files EXCEPT ![h] =
                                           FileRec("file", r.inode, r.m.inodes[r.inode].size,
                                                   mode, <<>>)]
                      /\ last' = Last("open", r.rc, path, h,
                                     IF O_CREATE \in mode THEN 1 ELSE 0, 0, <<>>)
           IN Opened(DoOpen(M, path, mode))
    /\ nops' = nops + 1
    /\ UNCHANGED <<mounted, disk, pinned>>
    /\ UNCHANGED tvars

GOSFS_Close(h) ==
    /\ Ready
    /\ files[h].kind = "file"
    /\ files' = [files EXCEPT ![h] = NoFile]
    /\ last' = Last("close", OK, <<>>, h, 0, 0, <<>>)
    /\ nops' = nops + 1
    /\ UNCHANGED <<mounted, inodes, bitSet, cache, disk, pinned, crashed>>
    /\ UNCHANGED tvars

\* variant: the block under the cursor is created when it is absent, as
\* GOSFS_Write does
GOSFS_Read_Allocating(h, numBytes) ==
    /\ Ready
    /\ files[h].kind = "file"
    /\ LET Return(c, r) ==
               /\ Commit(c.m)
               /\ files' = [files EXCEPT ![h] = r.f]
               /\ last' = Last("read", r.rc, <<>>, h, numBytes, Len(r.data), r.data)
           Read(c) == Return(c, DoRead(c.m, files[h], files[h].filePos, numBytes))
           Exists(e) ==
               IF e.crash \/ e.rc \/ O_READ \notin files[h].mode THEN [m |-> M, rc |-> OK]
               ELSE CreateFileBlock(M, files[h].inode,
                                    files[h].filePos \div GOSFS_FS_BLOCK_SIZE)
       IN Read(Exists(IsFileBlockExists(M, files[h].inode,
                                        files[h].filePos \div GOSFS_FS_BLOCK_SIZE)))
    /\ nops' = nops + 1
    /\ UNCHANGED <<mounted, disk, pinned>>
    /\ UNCHANGED tvars

GOSFS_Read(h, numBytes) ==
    /\ Ready
    /\ files[h].kind = "file"
    /\ LET Return(r) ==
               /\ crashed' = r.crash
               /\ files' = [files EXCEPT ![h] = r.f]
               /\ last' = Last("read", r.rc, <<>>, h, numBytes, Len(r.data), r.data)
       IN Return(DoRead(M, files[h], files[h].filePos, numBytes))
    /\ nops' = nops + 1
    /\ UNCHANGED <<mounted, inodes, bitSet, cache, disk, pinned>>
    /\ UNCHANGED tvars

GOSFS_Write(h, numBytes) ==
    /\ Ready
    /\ files[h].kind = "file"
    /\ LET Return(r) ==
               /\ Commit(r.m)
               /\ files' = [files EXCEPT ![h] = r.f]
               /\ last' = Last("write", r.rc, <<>>, h, numBytes, r.n, UserBuf(numBytes))
       IN Return(DoWrite(M, files[h], numBytes, UserBuf(numBytes)))
    /\ nops' = nops + 1
    /\ UNCHANGED <<mounted, disk, pinned>>
    /\ UNCHANGED tvars

GOSFS_Seek(h, pos) ==
    /\ Ready
    /\ files[h].kind # "none"
    /\ files' = [files EXCEPT ![h].filePos = pos]
    /\ last' = Last("seek", OK, <<>>, h, pos, 0, <<>>)
    /\ nops' = nops + 1
    /\ UNCHANGED <<mounted, inodes, bitSet, cache, disk, pinned, crashed>>
    /\ UNCHANGED tvars

GOSFS_Create_Directory(path, u) ==
    /\ Ready
    /\ (FindFreeInode(M).rc = OK => u = 0)
    /\ LET Return(r) ==
               /\ Commit(r.m)
               /\ last' = Last("mkdir", r.rc, path, 0, 0, 0, <<>>)
       IN Return(DoCreateDirectory(M, path, u))
    /\ nops' = nops + 1
    /\ UNCHANGED <<mounted, disk, files, pinned>>
    /\ UNCHANGED tvars

GOSFS_Delete(path) ==
    /\ Ready
    /\ LET Return(r) ==
               /\ Commit(r.m)
               /\ last' = Last("delete", r.rc, path, 0, 0, 0, <<>>)
       IN Return(DoDelete(M, path))
    /\ nops' = nops + 1
    /\ UNCHANGED <<mounted, disk, files, pinned>>
    /\ UNCHANGED tvars

GOSFS_Stat(path) ==
    /\ Ready
    /\ LET Return(r) ==
               /\ crashed' = r.crash
               /\ last' = Last("stat", r.rc, path, 0, r.size, r.isDirectory, <<>>)
       IN Return(DoStat(M, path))
    /\ nops' = nops + 1
    /\ UNCHANGED <<mounted, inodes, bitSet, cache, disk, files, pinned>>
    /\ UNCHANGED tvars

GOSFS_Open_Directory(path) ==
    /\ Ready
    /\ \E h \in Handles :
        /\ files[h].kind = "none"
        /\ \A g \in Handles : g < h => files[g].kind # "none"
        /\ LET Opened(r) ==
                   /\ crashed' = r.crash
                   /\ files' = IF r.crash \/ r.rc # OK THEN files
                               ELSE [files EXCEPT ![h] = r.f]
                   /\ last' = Last("opendir", r.rc, path, h, 0, 0, <<>>)
           IN Opened(DoOpenDirectory(M, path))
    /\ nops' = nops + 1
    /\ UNCHANGED <<mounted, inodes, bitSet, cache, disk, pinned>>
    /\ UNCHANGED tvars

GOSFS_Read_Entry(h, g) ==
    /\ Ready
    /\ files[h].kind = "dir"
    /\ (files[h].filePos + 1 < Len(files[h].entries) \/ files[h].filePos >= files[h].endPos)
           => g.inode = 0
    /\ LET Return(r) ==
               /\ crashed' = r.crash
               /\ files' = [files EXCEPT ![h] = r.f]
               /\ last' = Last("read_entry", r.rc, <<>>, h, r.size, r.name, <<>>)
       IN Return(DoReadEntry(M, files[h], g))
    /\ nops' = nops + 1
    /\ UNCHANGED <<mounted, inodes, bitSet, cache, disk, pinned>>
    /\ UNCHANGED tvars

GOSFS_Close_Directory(h) ==
    /\ Ready
    /\ files[h].kind = "dir"
    /\ files' = [files EXCEPT ![h] = NoFile]
    /\ last' = Last("closedir", OK, <<>>, h, 0, 0, <<>>)
    /\ nops' = nops + 1
    /\ UNCHANGED <<mounted, inodes, bitSet, cache, disk, pinned, crashed>>
    /\ UNCHANGED tvars

Next ==
    \/ \E fill \in HeapFills : GOSFS_Format(fill)
    \/ GOSFS_Mount
    \/ GOSFS_Sync
    \/ \E path \in Paths, mode \in OpenModes : GOSFS_Open(path, mode)
    \/ \E h \in Handles : GOSFS_Close(h)
    \/ \E h \in Handles, numBytes \in ReadLens : GOSFS_Read(h, numBytes)
    \/ \E h \in Handles, numBytes \in WriteLens : GOSFS_Write(h, numBytes)
    \/ \E h \in Handles, pos \in SeekPositions : GOSFS_Seek(h, pos)
    \/ \E path \in Paths, u \in 0 .. GOSFS_NUM_INODES : GOSFS_Create_Directory(path, u)
    \/ \E path \in Paths : GOSFS_Delete(path)
    \/ \E path \in Paths : GOSFS_Stat(path)
    \/ \E path \in Paths : GOSFS_Open_Directory(path)
    \/ \E h \in Handles, g \in GarbageEntries : GOSFS_Read_Entry(h, g)
    \/ \E h \in Handles : GOSFS_Close_Directory(h)

Spec == Init /\ [][Next]_vars

(***************************************************************************)
(* Kernel threads inside the file and directory operations of part_000.    *)
(* A call is entered (the locals initialised from *file before             *)
(* Mutex_Lock), then the mutex is taken where the code takes one, then the *)
(* body runs and the call returns.  The volume starts mounted, with "/a"   *)
(* holding GOSFS_FS_BLOCK_SIZE + 1 bytes open as descriptor 1 at position  *)
(* 0 and the root directory open as descriptor 2.                          *)
(***************************************************************************)
ThreadsPath == <<"/", "a">>
ThreadsMode == {O_CREATE, O_READ, O_WRITE}
ThreadsLen == GOSFS_FS_BLOCK_SIZE + 1
FileHandle == SetMin(Handles)
DirHandle == FileHandle + 1

\* the mount instance GOSFS_Mount builds from the blocks ca
MountedMachine(ca) == Machine([i \in Inodes |-> ReadInode(ca, i)], ReadBitSet(ca), ca)

\* format; mount; open("/a", create); write; seek(0); opendir("/")
ThreadsSetup ==
    LET Listed(w, d) ==
            [m |-> w.m,
             files |-> [h \in Handles |->
                           IF h = FileHandle THEN [w.f EXCEPT !.filePos = 0]
                           ELSE IF h = DirHandle THEN d.f ELSE NoFile]]
        Written(w) == Listed(w, DoOpenDirectory(w.m, <<"/">>))
        Opened(o) ==
            Written(DoWrite(o.m,
                            FileRec("file", o.inode, o.m.inodes[o.inode].size,
                                    ThreadsMode, <<>>),
                            ThreadsLen, UserBuf(ThreadsLen)))
    IN Opened(DoOpen(MountedMachine(FormatDisk([b \in Blocks |-> ZeroBlock], 0)),
                     ThreadsPath, ThreadsMode))

InitThreads ==
    /\ mounted = TRUE
    /\ inodes = ThreadsSetup.m.inodes
    /\ bitSet = ThreadsSetup.m.bitSet
    /\ cache = ThreadsSetup.m.cache
    /\ disk = FormatDisk([b \in Blocks |-> ZeroBlock], 0)
    /\ files = ThreadsSetup.files
    /\ pinned = 0
    /\ crashed = FALSE
    /\ last = Last("init", OK, <<>>, 0, 0, 0, <<>>)
    /\ nops = 0
    /\ lock = 0
    /\ flock = [h \in 1 .. MaxFiles |-> 0]
    /\ thr = [t \in Threads |-> IdleThread]

\* the operations of s_gosfsFileOps and s_gosfsDirOps a thread may call
MutexOps == {"read", "write"}
KindOf(op) == IF op = "read_entry" THEN "dir" ELSE "file"

\* thread t enters op on descriptor h: offset is file->filePos as the
\* initialisers of the locals read it
T_Call(t, op, h, arg) ==
    /\ mounted /\ ~crashed /\ nops < MaxCalls
    /\ thr[t].pc = "idle"
    /\ files[h].kind = KindOf(op)
    /\ thr' = [thr EXCEPT ![t] = [pc |-> "entered", op |-> op, h |-> h, arg |-> arg,
                                  offset |-> files[h].filePos, calls |-> @.calls + 1,
                                  rc |-> OK, data |-> <<>>, freeBlock |-> 0]]
    /\ nops' = nops + 1
    /\ UNCHANGED <<mounted, inodes, bitSet, cache, disk, files, pinned, crashed, last, lock, flock>>

\* GOSFS_Read and GOSFS_Write going on without waiting for the mutex
T_Mutex_Lock_NoWait(t) ==
    /\ ~crashed
    /\ thr[t].pc = "entered" /\ thr[t].op \in MutexOps
    /\ lock' = t
    /\ thr' = [thr EXCEPT ![t].pc = "inside"]
    /\ UNCHANGED <<mounted, inodes, bitSet, cache, disk, files, pinned, crashed, last, nops, flock>>

\* Mutex_Lock(&instance->lock) in GOSFS_Read and GOSFS_Write
T_Mutex_Lock(t) ==
    /\ ~crashed
    /\ thr[t].pc = "entered" /\ thr[t].op \in MutexOps
    /\ lock = 0
    /\ lock' = t
    /\ thr' = [thr EXCEPT ![t].pc = "inside"]
    /\ UNCHANGED <<mounted, inodes, bitSet, cache, disk, files, pinned, crashed, last, nops, flock>>

\* the body of GOSFS_Read up to Mutex_Unlock and the return
T_GOSFS_Read(t) ==
    /\ ~crashed
    /\ thr[t].pc = "inside" /\ thr[t].op = "read"
    /\ LET h == thr[t].h
           Return(r) ==
               /\ crashed' = r.crash
               /\ files' = [files EXCEPT ![h] = r.f]
               /\ thr' = [thr EXCEPT ![t].pc = "idle", ![t].rc = r.rc, ![t].data = r.data]
               /\ last' = Last("read", r.rc, <<>>, h, thr[t].arg, Len(r.data), r.data)
       IN Return(DoRead(M, files[h], thr[t].offset, thr[t].arg))
    /\ lock' = 0
    /\ UNCHANGED <<mounted, inodes, bitSet, cache, disk, pinned, nops, flock>>

\* the body of GOSFS_Write up to Mutex_Unlock and the return
T_GOSFS_Write(t) ==
    /\ ~crashed
    /\ thr[t].pc = "inside" /\ thr[t].op = "write"
    /\ LET h == thr[t].h
           Return(r) ==
               /\ Commit(r.m)
               /\ files' = [files EXCEPT ![h] = r.f]
               /\ thr' = [thr EXCEPT ![t].pc = "idle", ![t].rc = r.rc]
               /\ last' = Last("write", r.rc, <<>>, h, thr[t].arg, r.n, UserBuf(thr[t].arg))
       IN Return(DoWrite(M, files[h], thr[t].arg, UserBuf(thr[t].arg)))
    /\ lock' = 0
    /\ UNCHANGED <<mounted, disk, pinned, nops, flock>>

\* GOSFS_Seek takes no mutex
T_GOSFS_Seek(t) ==
    /\ ~crashed
    /\ thr[t].pc = "entered" /\ thr[t].op = "seek"
    /\ files' = [files EXCEPT ![thr[t].h].filePos = thr[t].arg]
    /\ thr' = [thr EXCEPT ![t].pc = "idle"]
    /\ last' = Last("seek", OK, <<>>, thr[t].h, thr[t].arg, 0, <<>>)
    /\ UNCHANGED <<mounted, inodes, bitSet, cache, disk, pinned, crashed, nops, lock, flock>>

\* GOSFS_Read_Entry takes no mutex: past the end-of-directory test it goes
\* on to read superblock.inodes
T_GOSFS_Read_Entry_Test(t) ==
    /\ ~crashed
    /\ thr[t].pc = "entered" /\ thr[t].op = "read_entry"
    /\ IF files[thr[t].h].filePos >= files[thr[t].h].endPos
       THEN /\ thr' = [thr EXCEPT ![t].pc = "idle", ![t].rc = VFS_NO_MORE_DIR_ENTRIES]
            /\ last' = Last("read_entry", VFS_NO_MORE_DIR_ENTRIES, <<>>, thr[t].h, 0, 0, <<>>)
       ELSE /\ thr' = [thr EXCEPT ![t].pc = "inside"]
            /\ UNCHANGED last
    /\ UNCHANGED <<mounted, inodes, bitSet, cache, disk, files, pinned, crashed, nops, lock, flock>>

\* the rest of GOSFS_Read_Entry: the entry at the offset taken on entry,
\* its inode's fields, dir->filePos++
T_GOSFS_Read_Entry(t, g) ==
    /\ ~crashed
    /\ thr[t].pc = "inside" /\ thr[t].op = "read_entry"
    /\ (thr[t].offset + 1 < Len(files[thr[t].h].entries)) => g.inode = 0
    /\ LET h == thr[t].h
           Return(r) ==
               /\ crashed' = r.crash
               /\ files' = IF r.rc = OK THEN [files EXCEPT ![h].filePos = @ + 1] ELSE files
               /\ thr' = [thr EXCEPT ![t].pc = "idle", ![t].rc = r.rc]
               /\ last' = Last("read_entry", r.rc, <<>>, h, r.size, r.name, <<>>)
       IN Return(DoReadEntry(M, [files[h] EXCEPT !.filePos = thr[t].offset], g))
    /\ UNCHANGED <<mounted, inodes, bitSet, cache, disk, pinned, nops, lock, flock>>

NextThreads ==
    \/ \E t \in Threads, numBytes \in ReadLens : T_Call(t, "read", FileHandle, numBytes)
    \/ \E t \in Threads, numBytes \in {1} : T_Call(t, "write", FileHandle, numBytes)
    \/ \E t \in Threads, pos \in {0, 1} : T_Call(t, "seek", FileHandle, pos)
    \/ \E t \in Threads : T_Call(t, "read_entry", DirHandle, 0)
    \/ \E t \in Threads : T_Mutex_Lock(t)
    \/ \E t \in Threads : T_GOSFS_Read(t)
    \/ \E t \in Threads : T_GOSFS_Write(t)
    \/ \E t \in Threads : T_GOSFS_Seek(t)
    \/ \E t \in Threads : T_GOSFS_Read_Entry_Test(t)
    \/ \E t \in Threads, g \in GarbageEntries : T_GOSFS_Read_Entry(t, g)

SpecThreads == InitThreads /\ [][NextThreads]_vars

(***************************************************************************)
(* Two files written by several threads.  GOSFS_Write holds the instance's *)
(* mutex from its first test to its finish label (part_000:1456-1538).     *)
(* GetNewFreeBlock reads the bitmap (Find_First_Free_Bit), waits for the   *)
(* block's buffer, and only then sets the bit: the read of the bitmap and  *)
(* the rest of the write are separate steps of the thread.                 *)
(***************************************************************************)
WritersPaths == <<<<"/", "a">>, <<"/", "b">>>>

\* format; mount; open(path, create) for the first k paths, one descriptor each
RECURSIVE WritersSetup(_)
WritersSetup(k) ==
    LET Opened(prev, o) ==
            [m |-> o.m,
             files |-> [prev.files EXCEPT
                           ![k] = FileRec("file", o.inode, o.m.inodes[o.inode].size,
                                          {O_CREATE, O_WRITE}, <<>>)]]
        Next1(prev) == Opened(prev, DoOpen(prev.m, WritersPaths[k], {O_CREATE, O_WRITE}))
    IN IF k = 0
       THEN [m |-> MountedMachine(FormatDisk([b \in Blocks |-> ZeroBlock], 0)),
             files |-> [h \in Handles |-> NoFile]]
       ELSE Next1(WritersSetup(k - 1))

InitWriters ==
    LET Start(w) ==
            /\ inodes = w.m.inodes
            /\ bitSet = w.m.bitSet
            /\ cache = w.m.cache
            /\ files = w.files
    IN /\ Start(WritersSetup(Len(WritersPaths)))
       /\ mounted = TRUE
       /\ disk = FormatDisk([b \in Blocks |-> ZeroBlock], 0)
       /\ pinned = 0
       /\ crashed = FALSE
       /\ last = Last("init", OK, <<>>, 0, 0, 0, <<>>)
       /\ nops = 0
       /\ lock = 0
       /\ flock = [h \in 1 .. MaxFiles |-> 0]
       /\ thr = [t \in Threads |-> IdleThread]

\* freeBlock = Find_First_Free_Bit(...) in GetNewFreeBlock (part_000:978):
\* the bit is read, not yet set
W_Find_First_Free_Bit(t) ==
    /\ ~crashed
    /\ thr[t].pc = "inside" /\ thr[t].op = "write"
    /\ thr' = [thr EXCEPT ![t].pc = "found",
                          ![t].freeBlock = Find_First_Free_Bit(bitSet, NumDevBlocks)]
    /\ UNCHANGED <<mounted, inodes, bitSet, cache, disk, files, pinned, crashed, last, nops,
                   lock, flock>>

\* the rest of GOSFS_Write: the thread goes on with the bit it read as clear,
\* sets the bits of the blocks it takes, and unlocks
W_GOSFS_Write(t) ==
    /\ ~crashed
    /\ thr[t].pc = "found" /\ thr[t].op = "write"
    /\ LET h == thr[t].h
           Return(r) ==
               /\ inodes' = r.m.inodes
               /\ cache' = r.m.cache
               /\ bitSet' = bitSet \cup r.m.bitSet
               /\ crashed' = r.m.crash
               /\ files' = [files EXCEPT ![h] = r.f]
               /\ thr' = [thr EXCEPT ![t].pc = "idle", ![t].rc = r.rc, ![t].freeBlock = 0]
               /\ last' = Last("write", r.rc, <<>>, h, thr[t].arg, r.n, UserBuf(thr[t].arg))
       IN Return(DoWrite(Machine(inodes, bitSet \ {thr[t].freeBlock}, cache),
                         files[h], thr[t].arg, UserBuf(thr[t].arg)))
    /\ lock' = 0
    /\ UNCHANGED <<mounted, disk, pinned, nops, flock>>

NextWriters ==
    \/ \E t \in Threads, h \in Handles, numBytes \in {1, GOSFS_FS_BLOCK_SIZE} :
          T_Call(t, "write", h, numBytes)
    \/ \E t \in Threads : T_Mutex_Lock(t)
    \/ \E t \in Threads : W_Find_First_Free_Bit(t)
    \/ \E t \in Threads : W_GOSFS_Write(t)

SpecWriters == InitWriters /\ [][NextWriters]_vars

(***************************************************************************)
(* The mutex and buffer discipline of src/geekos/gosfs.c (project5).  Its  *)
(* helpers (Open_File, Create_File, Find_File, File_Is_Open, Stat_File,    *)
(* Close_File, Get_Next_Entry, Delete_Ptr, Dealloc_Inode, ...) are not in  *)
(* the source tree: what they return is a nondeterministic choice, and the *)
(* volume's contents are left out.  struct GOSFS has the mutex lock, each  *)
(* struct GOSFS_File a mutex of its own (flock).                           *)
(***************************************************************************)
P5MountOps == {"open", "mkdir", "opendir", "stat", "sync", "delete"}
P5FileOps == {"fstat", "read", "write", "seek", "close", "read_entry"}
P5HelperRc == {OK, EUNSPECIFIED}

InitP5 == Init

\* rc as the last thing thread t returned from op
P5_Returned(t, op, rc) ==
    /\ thr' = [thr EXCEPT ![t] = [IdleThread EXCEPT !.calls = thr[t].calls, !.rc = rc]]
    /\ last' = Last(op, rc, <<>>, 0, 0, 0, <<>>)

\* GOSFS_Mount (gosfs.c:694-742): the superblock buffer is pinned while
\* the magic is tested and the instance allocated; the ENOMEM return
\* after Malloc leaves it pinned
P5_GOSFS_Mount(outcome) ==
    /\ ~mounted
    /\ \A t \in Threads : thr[t].pc = "idle"
    /\ outcome = "ENOMEM" => pinned < MaxPinned
    /\ mounted' = (outcome = OK)
    /\ pinned' = IF outcome = "ENOMEM" THEN pinned + 1 ELSE pinned
    /\ last' = Last("mount", outcome, <<>>, 0, 0, 0, <<>>)
    /\ UNCHANGED <<inodes, bitSet, cache, disk, files, crashed, nops, lock, flock, thr>>

\* gosfs.c:50, 52, 60
GOSFS_BLOCK_BITMAP_OFFSET == 1
GOSFS_NUM_INODE_BLOCKS == 4
GOSFS_NUM_BITS_PER_FS_BLOCK == GOSFS_FS_BLOCK_SIZE * 8
\* Get_Num_Blocks(blockDev) / GOSFS_SECTORS_PER_FS_BLOCK of the devices formatted
P5DeviceBlocks ==
    {1, NumDevBlocks, GOSFS_NUM_BITS_PER_FS_BLOCK - 1, GOSFS_NUM_BITS_PER_FS_BLOCK,
     GOSFS_NUM_BITS_PER_FS_BLOCK + 1, 2 * GOSFS_NUM_BITS_PER_FS_BLOCK}

\* the superblock GOSFS_Format builds (gosfs.c:624-634)
P5_Superblock(numBlocks) ==
    LET numBitMapBlocks == numBlocks \div GOSFS_NUM_BITS_PER_FS_BLOCK + 1
        inodeTableOffset == GOSFS_BLOCK_BITMAP_OFFSET + numBitMapBlocks
    IN [magic |-> GOSFS_MAGIC, numBlocks |-> numBlocks,
        blockBitMapOffset |-> GOSFS_BLOCK_BITMAP_OFFSET,
        inodeTableOffset |-> inodeTableOffset,
        dataBlockOffset |-> inodeTableOffset + GOSFS_NUM_INODE_BLOCKS]

\* GOSFS_Format (gosfs.c:613-692).  ENOMEM is the return before the
\* superblock is stored; the loop over the inode table runs up to the
\* uninitialised numInodeTableBlocks, so the call returns 0 or the error of
\* a Get_FS_Buffer.  last.data is the superblock stored in block 0:
\* blockBitMapOffset, inodeTableOffset, dataBlockOffset.
P5_GOSFS_Format(numBlocks, outcome) ==
    /\ ~mounted
    /\ \A t \in Threads : thr[t].pc = "idle"
    /\ LET sb == P5_Superblock(numBlocks)
       IN last' = Last("format", outcome, <<>>, 0, numBlocks, 0,
                       IF outcome = ENOMEM THEN <<>>
                       ELSE <<sb.blockBitMapOffset, sb.inodeTableOffset, sb.dataBlockOffset>>)
    /\ UNCHANGED <<mounted, inodes, bitSet, cache, disk, files, pinned, crashed, nops,
                   lock, flock, thr>>

\* thread t calls op; h is the open file of a file operation, 0 otherwise
P5_Call(t, op, h) ==
    /\ mounted /\ nops < MaxCalls
    /\ thr[t].pc = "idle"
    /\ (op \in P5MountOps /\ h = 0) \/ (op \in P5FileOps /\ h \in Handles)
    /\ thr' = [thr EXCEPT ![t] = [pc |-> "entered", op |-> op, h |-> h, arg |-> 0,
                                  offset |-> 0, calls |-> @.calls + 1,
                                  rc |-> OK, data |-> <<>>, freeBlock |-> 0]]
    /\ nops' = nops + 1
    /\ UNCHANGED <<mounted, inodes, bitSet, cache, disk, files, pinned, crashed, last, lock, flock>>

\* Mutex_Lock(&fs->lock)
P5_Mutex_Lock(t) ==
    /\ thr[t].pc = "entered" /\ thr[t].op \in P5MountOps
    /\ lock = 0
    /\ lock' = t
    /\ thr' = [thr EXCEPT ![t].pc = "inside"]
    /\ UNCHANGED <<mounted, inodes, bitSet, cache, disk, files, pinned, crashed, last, nops, flock>>

\* Mutex_Lock(&fileInstance->lock)
P5_File_Mutex_Lock(t) ==
    /\ thr[t].pc = "entered" /\ thr[t].op \in P5FileOps
    /\ flock[thr[t].h] = 0
    /\ flock' = [flock EXCEPT ![thr[t].h] = t]
    /\ thr' = [thr EXCEPT ![t].pc = "inside"]
    /\ UNCHANGED <<mounted, inodes, bitSet, cache, disk, files, pinned, crashed, last, nops, lock>>

\* GOSFS_Seek (gosfs.c:345-361) returns EINVALID before it takes the mutex
P5_GOSFS_Seek_Invalid(t) ==
    /\ thr[t].pc = "entered" /\ thr[t].op = "seek"
    /\ P5_Returned(t, "seek", EINVALID)
    /\ UNCHANGED <<mounted, inodes, bitSet, cache, disk, files, pinned, crashed, nops, lock, flock>>

\* GOSFS_Open, GOSFS_Create_Directory, GOSFS_Open_Directory, GOSFS_Stat,
\* GOSFS_Sync (gosfs.c:456-506, 555-600): helper; Mutex_Unlock; return
P5_GOSFS_Mount_Op(t, rc) ==
    /\ thr[t].pc = "inside" /\ thr[t].op \in P5MountOps \ {"delete"}
    /\ lock' = 0
    /\ P5_Returned(t, thr[t].op, rc)
    /\ UNCHANGED <<mounted, inodes, bitSet, cache, disk, files, pinned, crashed, nops, flock>>

\* the file and directory operations (gosfs.c:180-441): every exit unlocks
\* the file's mutex
P5_GOSFS_File_Op(t, rc) ==
    /\ thr[t].pc = "inside" /\ thr[t].op \in P5FileOps
    /\ flock' = [flock EXCEPT ![thr[t].h] = 0]
    /\ P5_Returned(t, thr[t].op, rc)
    /\ UNCHANGED <<mounted, inodes, bitSet, cache, disk, files, pinned, crashed, nops, lock>>

\* Delete_Entry (gosfs.c:99-170): the inode-table buffer is pinned; the
\* failure exit of the direct-block loop returns without releasing it
P5DeleteEntryExits == {"get_failed", "direct_failed", "indirect_failed", "not_found", "deleted"}
P5_Delete_Entry_Pins(exit) == IF exit = "direct_failed" THEN 1 ELSE 0
P5_Delete_Entry_Rc(exit) ==
    IF exit = "deleted" THEN OK ELSE IF exit = "not_found" THEN ENOTFOUND ELSE EUNSPECIFIED

\* the exits of GOSFS_Delete (gosfs.c:511-549)
P5DeleteExits ==
    {"file_is_open", "find_failed", "no_memory", "parent_failed", "delete_entry"}

\* GOSFS_Delete after Mutex_Lock.  unlocks is what Dealloc_Inode(&fs->lock)
\* does with the mutex it is handed
P5_GOSFS_Delete(t, exit, entryExit, unlocks) ==
    /\ thr[t].pc = "inside" /\ thr[t].op = "delete"
    /\ exit # "delete_entry" => (entryExit = "deleted" /\ unlocks)
    /\ (exit = "delete_entry" /\ entryExit # "deleted") => unlocks
    /\ LET pins == IF exit = "delete_entry" THEN P5_Delete_Entry_Pins(entryExit) ELSE 0
           rc == IF exit = "file_is_open" THEN EACCESS
                 ELSE IF exit = "no_memory" THEN ENOMEM
                 ELSE IF exit = "delete_entry" THEN P5_Delete_Entry_Rc(entryExit)
                 ELSE ENOTFOUND
           released == IF exit = "file_is_open" THEN FALSE
                       ELSE IF exit = "delete_entry" /\ entryExit = "deleted" THEN unlocks
                       ELSE TRUE
       IN /\ pinned + pins <= MaxPinned
          /\ pinned' = pinned + pins
          /\ lock' = IF released THEN 0 ELSE lock
          /\ P5_Returned(t, "delete", rc)
    /\ UNCHANGED <<mounted, inodes, bitSet, cache, disk, files, crashed, nops, flock>>

NextP5 ==
    \/ \E numBlocks \in P5DeviceBlocks, outcome \in {OK, ENOMEM, EUNSPECIFIED} :
          P5_GOSFS_Format(numBlocks, outcome)
    \/ \E outcome \in {OK, ENOMEM, EINVALIDFS, EUNSPECIFIED} : P5_GOSFS_Mount(outcome)
    \/ \E t \in Threads, op \in P5MountOps : P5_Call(t, op, 0)
    \/ \E t \in Threads, op \in P5FileOps, h \in Handles : P5_Call(t, op, h)
    \/ \E t \in Threads : P5_Mutex_Lock(t)
    \/ \E t \in Threads : P5_File_Mutex_Lock(t)
    \/ \E t \in Threads : P5_GOSFS_Seek_Invalid(t)
    \/ \E t \in Threads, rc \in P5HelperRc : P5_GOSFS_Mount_Op(t, rc)
    \/ \E t \in Threads, rc \in P5HelperRc \cup {EACCESS} : P5_GOSFS_File_Op(t, rc)
    \/ \E t \in Threads, exit \in P5DeleteExits, entryExit \in P5DeleteEntryExits,
          unlocks \in BOOLEAN : P5_GOSFS_Delete(t, exit, entryExit, unlocks)

SpecP5 == InitP5 /\ [][NextP5]_vars

(***************************************************************************)
(* What an inode owns, read off the inode table and the pointer blocks     *)
(***************************************************************************)
SuperblockRegion == 0 .. BlockCountSuperblock(NumDevBlocks) - 1
LiveInodes == {i \in Inodes : HasFlag(inodes[i].flags, GOSFS_DIRENTRY_USED)}
DirectoryInodes ==
    {i \in LiveInodes : HasFlag(inodes[i].flags, GOSFS_DIRENTRY_ISDIRECTORY)}

\* Every non-zero block pointer of inode i with the place it is stored at:
\* lvl 0 for blockList[k], lvl 1 for cell e of the single-indirect block,
\* lvl 2 for cell e of the double-indirect block, lvl 3 for cell e of the
\* second-level block at (k).
Slot(i, lvl, k, e, ptr) == [ino |-> i, lvl |-> lvl, k |-> k, e |-> e, ptr |-> ptr]
PointerCells(i, lvl, k, b) ==
    IF b = 0 \/ ~BlockOK(b) THEN {}
    ELSE {Slot(i, lvl, k, e, PtrAt(cache[b], e)) : e \in PtrOffsets}
InodeSlots(i) ==
    LET bl == inodes[i].blockList
        top == {Slot(i, 0, k - 1, 0, bl[k]) : k \in 1 .. GOSFS_NUM_BLOCK_PTRS}
        ind == PointerCells(i, 1, 0, bl[GOSFS_NUM_DIRECT_BLOCKS + 1])
        ind2 == PointerCells(i, 2, 0,
                             bl[GOSFS_NUM_DIRECT_BLOCKS + GOSFS_NUM_INDIRECT_BLOCKS + 1])
        leaf2 == UNION {PointerCells(i, 3, t.e, t.ptr) : t \in {u \in ind2 : u.ptr # 0}}
    IN {t \in top \cup ind \cup ind2 \cup leaf2 : t.ptr # 0}
AllSlots == UNION {InodeSlots(i) : i \in LiveInodes}
ReachableBlocks == {t.ptr : t \in AllSlots}

\* C1: after every operation a block's bitmap bit is set exactly when the
\* block lies in the superblock region or is a data or indirection block
\* reachable from a live (USED) inode.
C1_BitmapIffReachable ==
    (mounted /\ ~crashed) =>
        \A b \in Blocks : b \in bitSet <=> (b \in SuperblockRegion \/ b \in ReachableBlocks)

\* C2: no two distinct (inode, logical position) pairs resolve to the same
\* physical block.
C2_NoAliasing ==
    (mounted /\ ~crashed) =>
        \A s1 \in AllSlots : \A s2 \in AllSlots : s1 # s2 => s1.ptr # s2.ptr

\* the entries that are not FREE in the direct blocks of directory d
UsedEntries(d) ==
    {<<k, e>> \in (1 .. GOSFS_NUM_DIRECT_BLOCKS) \X EntryIdx :
        /\ inodes[d].blockList[k] # 0
        /\ BlockOK(inodes[d].blockList[k])
        /\ DirEntryAt(cache[inodes[d].blockList[k]], e).type # GOSFS_DIRTYP_FREE}

\* C3: after every operation the size field of every directory inode equals
\* the number of entries of its blocks whose type is not FREE.
C3_DirSizeIsEntryCount ==
    (mounted /\ ~crashed) =>
        \A d \in DirectoryInodes : inodes[d].size = Cardinality(UsedEntries(d))

\* the blocks of every directory, as the inode table names them
DirectoryContents(in, ca) ==
    [d \in Inodes |->
        IF HasFlag(in[d].flags, GOSFS_DIRENTRY_USED)
           /\ HasFlag(in[d].flags, GOSFS_DIRENTRY_ISDIRECTORY)
        THEN [k \in 1 .. GOSFS_NUM_DIRECT_BLOCKS |->
                 IF in[d].blockList[k] # 0 /\ BlockOK(in[d].blockList[k])
                 THEN ca[in[d].blockList[k]] ELSE ZeroBlock]
        ELSE <<>>]
Resolves(path) == FindInodeByPath(M, path).rc = OK

\* C10: delete of a path that does not resolve returns NOT_FOUND and leaves
\* the bitmap, the inode table and every directory as they were.
C10_DeleteMissingStep ==
    (last'.op = "delete" /\ nops' = nops + 1 /\ ~Resolves(last'.path))
        => /\ last'.rc = ENOTFOUND
           /\ bitSet' = bitSet
           /\ inodes' = inodes
           /\ DirectoryContents(inodes', cache') = DirectoryContents(inodes, cache)
C10_DeleteMissingIsNotFound == [][C10_DeleteMissingStep]_vars

ClearBitCount(m) == Cardinality(BitmapBits \ m.bitSet)
\* the parent of path resolves to a live directory inode
ParentExists(path) ==
    LET r == FindInodeByPath(M, GetParentPath(path, GOSFS_FILENAME_MAX + 1).parent)
    IN ~r.crash /\ r.rc = OK /\ r.inode \in DirectoryInodes

\* create(p); delete(p); stat(p) run from the current state
CreateThenDelete(path) ==
    LET c == DoOpen(M, path, {O_CREATE, O_WRITE})
        d == DoDelete(c.m, path)
        s == DoStat(d.m, path)
    IN [created |-> ~c.m.crash /\ c.rc = OK,
        crash |-> d.m.crash \/ s.crash,
        stat |-> s.rc,
        clearBefore |-> ClearBitCount(M),
        clearAfter |-> ClearBitCount(d.m),
        grown |-> Cardinality(c.m.bitSet \ M.bitSet)]

\* C9: in every reachable state, for every path that does not exist and
\* whose parent directory exists, create then delete leaves stat answering
\* NOT_FOUND and as many clear bitmap bits as before the create.
C9_CreateDeleteRestores ==
    (mounted /\ ~crashed) =>
        \A path \in Paths :
            (~Resolves(path) /\ ParentExists(path) /\ CreateThenDelete(path).created)
                => /\ ~CreateThenDelete(path).crash
                   /\ CreateThenDelete(path).stat = ENOTFOUND
                   /\ CreateThenDelete(path).clearAfter = CreateThenDelete(path).clearBefore

\* 0, 1, B_SZ - 1, B_SZ, B_SZ + 1, one byte into the single-indirect region,
\* one byte into the double-indirect region
RoundTripLens ==
    {0, 1, GOSFS_FS_BLOCK_SIZE - 1, GOSFS_FS_BLOCK_SIZE, GOSFS_FS_BLOCK_SIZE + 1,
     DirectLimit * GOSFS_FS_BLOCK_SIZE + 1, IndirectLimit * GOSFS_FS_BLOCK_SIZE + 1}

\* open(path, O_CREATE | O_READ | O_WRITE); write(buf, n); seek(0); read(n)
\* run from the current state
WriteThenRead(path, n) ==
    LET c == DoOpen(M, path, {O_CREATE, O_READ, O_WRITE})
        f == FileRec("file", c.inode, c.m.inodes[c.inode].size,
                     {O_CREATE, O_READ, O_WRITE}, <<>>)
        w == DoWrite(c.m, f, n, UserBuf(n))
        g == [w.f EXCEPT !.filePos = 0]
        r == DoRead(w.m, g, g.filePos, n)
    IN IF c.m.crash \/ c.rc # OK THEN [created |-> FALSE, ok |-> FALSE, inode |-> 0]
       ELSE [created |-> TRUE,
             ok |-> /\ ~w.m.crash /\ w.rc = OK /\ w.n = n
                    /\ ~r.crash /\ r.rc = OK /\ r.data = UserBuf(n),
             inode |-> c.inode]

\* C8: for every length of RoundTripLens, writing that many bytes to a new
\* file from offset 0, seeking to 0 and reading the same length returns
\* exactly the written bytes.
C8_WriteReadRoundTrip ==
    (mounted /\ ~crashed) =>
        \A path \in Paths : \A n \in RoundTripLens :
            (~Resolves(path) /\ ParentExists(path) /\ WriteThenRead(path, n).created)
                => WriteThenRead(path, n).ok

\* C7: every buffer pinned with Get_FS_Buffer is released on every exit path,
\* format, mount and the error exits included: once an operation has
\* returned no buffer is left pinned.
C7_NoBufferLeftPinned == pinned = 0

\* C5: every operation holds the mount's mutex during every access to the
\* shared bitmap, inode table, directory contents and indirection chains,
\* so that two threads are never inside such accesses at the same time.
C5_MutexHeldDuringSharedAccess ==
    /\ \A t \in Threads : thr[t].pc = "inside" => lock = t
    /\ \A t1 \in Threads : \A t2 \in Threads :
           (t1 # t2 /\ thr[t1].pc = "inside") => thr[t2].pc # "inside"

\* two reads of na and then nb bytes, one after the other, on the file f0:
\* what each returns and where the cursor ends
SerialReads(f0, na, nb) ==
    LET Both(ra, rb) ==
            [first |-> <<ra.rc, ra.data>>, second |-> <<rb.rc, rb.data>>,
             filePos |-> rb.f.filePos]
        Then(ra) == Both(ra, DoRead(M, ra.f, ra.f.filePos, nb))
    IN Then(DoRead(M, f0, f0.filePos, na))

\* threads 1 and 2 have each made one call, a read of the same open file,
\* and both have returned; nothing else was called
TwoReadsDone ==
    /\ nops = 2
    /\ \A t \in {1, 2} :
           /\ thr[t].pc = "idle" /\ thr[t].calls = 1
           /\ thr[t].op = "read" /\ thr[t].h = FileHandle

\* C6: concurrent reads on the same open file are serialised: the bytes
\* each read returns and the final cursor are those of one of the two
\* serial orders.
C6_ConcurrentReadsSerialised ==
    TwoReadsDone =>
        LET f0 == ThreadsSetup.files[FileHandle]
            got1 == <<thr[1].rc, thr[1].data>>
            got2 == <<thr[2].rc, thr[2].data>>
            pos == files[FileHandle].filePos
        IN \/ SerialReads(f0, thr[1].arg, thr[2].arg) =
                  [first |-> got1, second |-> got2, filePos |-> pos]
           \/ SerialReads(f0, thr[2].arg, thr[1].arg) =
                  [first |-> got2, second |-> got1, filePos |-> pos]

\* C4: every externally visible operation releases the mutex on every exit
\* path, error returns included: a thread that has returned from an
\* operation holds neither the mount's mutex nor a file's.
C4_MutexReleasedOnReturn ==
    \A t \in Threads :
        thr[t].pc = "idle" => (lock # t /\ \A h \in DOMAIN flock : flock[h] # t)

RootPath == <<"/">>

\* C11: delete("/") and mkdir("/") are rejected: the call returns an error
\* and leaves the root directory's entries, its data block and the bitmap
\* unchanged.
C11_RootTargetStep ==
    (last'.op \in {"delete", "mkdir"} /\ nops' = nops + 1 /\ last'.path = RootPath)
        => /\ last'.rc # OK
           /\ bitSet' = bitSet
           /\ inodes'[0] = inodes[0]
           /\ DirectoryContents(inodes', cache')[0] = DirectoryContents(inodes, cache)[0]
C11_RootTargetRejected == [][C11_RootTargetStep]_vars

\* path resolves to a live directory that holds a REGULAR entry
NonEmptyDirectory(path) ==
    LET r == FindInodeByPath(M, path)
    IN /\ ~r.crash /\ r.rc = OK /\ r.inode \in DirectoryInodes
       /\ \E u \in UsedEntries(r.inode) :
              DirEntryAt(cache[inodes[r.inode].blockList[u[1]]], u[2]).type
                  = GOSFS_DIRTYP_REGULAR

\* C12: delete of a directory that holds at least one REGULAR entry returns
\* an error and changes nothing: inode table, bitmap and blocks are as
\* before, and the directory is opened by opendir exactly as before.
C12_DeleteNonEmptyStep ==
    (last'.op = "delete" /\ nops' = nops + 1 /\ NonEmptyDirectory(last'.path))
        => /\ last'.rc # OK
           /\ ~crashed'
           /\ bitSet' = bitSet
           /\ inodes' = inodes
           /\ cache' = cache
           /\ DoOpenDirectory(Machine(inodes', bitSet', cache'), last'.path)
                  = DoOpenDirectory(M, last'.path)
C12_DeleteNonEmptyRejected == [][C12_DeleteNonEmptyStep]_vars

\* a delete of a non-empty directory has just been refused
C12_Witness ==
    /\ last.op = "delete" /\ last.rc # OK /\ ~crashed
    /\ NonEmptyDirectory(last.path)
    /\ DoOpenDirectory(M, last.path).rc = OK

\* the inodes that an open file record refers to
OpenInodes == {files[h].inode : h \in {g \in Handles : files[g].kind = "file"}}
\* path resolves to an inode that an open file record refers to
HasOpenRecord(path) ==
    LET r == FindInodeByPath(M, path)
    IN ~r.crash /\ r.rc = OK /\ r.inode \in OpenInodes
\* every block of an inode with an open record is marked in the bitmap
OpenBlocksAllocated ==
    \A i \in OpenInodes \cap Inodes : \A t \in InodeSlots(i) : t.ptr \in bitSet

\* C13: delete of a path that has an open file record frees neither the
\* inode nor any of its blocks, and no open record is left with a block that
\* the bitmap marks free.
C13_DeleteOpenStep ==
    /\ (last'.op = "delete" /\ nops' = nops + 1 /\ HasOpenRecord(last'.path))
           => (bitSet' = bitSet /\ inodes' = inodes)
    /\ (mounted' /\ ~crashed' /\ OpenBlocksAllocated) => OpenBlocksAllocated'
C13_DeleteSerializedAgainstOpen == [][C13_DeleteOpenStep]_vars

\* path resolves to a live inode that is not a directory
ExistingFile(path) ==
    LET r == FindInodeByPath(M, path)
    IN ~r.crash /\ r.rc = OK /\ r.inode \in LiveInodes \ DirectoryInodes
\* stat(path) in the state after the step
StatAfter(path) == DoStat(Machine(inodes', bitSet', cache'), path)

\* C14: open of an existing file succeeds; open of a path that does not
\* exist without O_CREATE returns NOT_FOUND and changes no file-system state;
\* open of a path that does not exist with O_CREATE, the parent existing,
\* creates a regular file: a following stat succeeds with size 0 and
\* isDirectory false.
C14_OpenStep ==
    (last'.op = "open" /\ nops' = nops + 1) =>
        /\ ExistingFile(last'.path) => (last'.rc = OK /\ ~crashed')
        /\ (~Resolves(last'.path) /\ last'.arg = 0)
               => /\ last'.rc = ENOTFOUND
                  /\ <<inodes', bitSet', cache', files', crashed'>>
                         = <<inodes, bitSet, cache, files, crashed>>
        /\ (~Resolves(last'.path) /\ last'.arg = 1 /\ ParentExists(last'.path))
               => /\ last'.rc = OK /\ ~crashed'
                  /\ StatAfter(last'.path).rc = OK
                  /\ StatAfter(last'.path).size = 0
                  /\ StatAfter(last'.path).isDirectory = 0
C14_OpenByExistenceAndCreate == [][C14_OpenStep]_vars

\* C15: after opendir, successive read_entry calls return the snapshotted
\* non-FREE entries one by one in stored order, each exactly once and none
\* from outside the snapshot, and then NO_MORE_ENTRIES: the call made at
\* cursor k returns entry k of the snapshot while k is inside it.
C15_ReadEntryStep ==
    (last'.op = "read_entry" /\ nops' = nops + 1) =>
        LET f == files[last'.h]
        IN IF f.filePos < Len(f.entries)
           THEN /\ last'.rc = OK /\ ~crashed'
                /\ last'.n = f.entries[f.filePos + 1].filename
                /\ files'[last'.h].filePos = f.filePos + 1
           ELSE last'.rc = VFS_NO_MORE_DIR_ENTRIES
C15_ReadEntryInStoredOrder == [][C15_ReadEntryStep]_vars

\* the entries of the root directory in the state after the step, as
\* GOSFS_Open_Directory collects them
RootEntriesAfter == ReadDirectoryFrom(Machine(inodes', bitSet', cache'), inodes'[0], 0)

\* C16: format followed by mount succeeds; the root directory then holds a
\* THIS entry and no REGULAR entry, and stat("/") returns size 1,
\* isDirectory true and isSetuid false.
C16_FormatMountStep ==
    (last.op = "format" /\ last.rc = OK /\ last'.op = "mount") =>
        /\ last'.rc = OK /\ mounted' /\ ~crashed'
        /\ ~RootEntriesAfter.crash
        /\ \E k \in 1 .. Len(RootEntriesAfter.found) :
               RootEntriesAfter.found[k].type = GOSFS_DIRTYP_THIS
        /\ \A k \in 1 .. Len(RootEntriesAfter.found) :
               RootEntriesAfter.found[k].type # GOSFS_DIRTYP_REGULAR
        /\ StatAfter(RootPath).rc = OK
        /\ StatAfter(RootPath).size = 1
        /\ StatAfter(RootPath).isDirectory = 1
        /\ ~HasFlag(inodes'[0].flags, GOSFS_DIRENTRY_SETUID)
C16_FormatThenMount == [][C16_FormatMountStep]_vars

\* C17: mount of a device whose block 0 does not start with GOSFS_MAGIC
\* fails with the INVALID_FS error code.
C17_BadMagicStep ==
    (last'.op = "mount" /\ ~mounted /\ DiskWord(cache, 0) # GOSFS_MAGIC)
        => (last'.rc = EINVALIDFS /\ ~mounted')
C17_BadMagicIsInvalidFs == [][C17_BadMagicStep]_vars

\* the blocks whose buffer differs from the block on the device
DirtyBlocks == {b \in Blocks : cache[b] # disk[b]}

\* C18: after sync returns success every change made to the bitmap, the
\* inode table, directories and file data is on the device and no buffer is
\* dirty: mounting the device afresh reads the inode table and the bitmap of
\* the in-memory instance.
C18_SyncedToDevice ==
    (mounted /\ ~crashed /\ last.op = "sync" /\ last.rc = OK) =>
        /\ DirtyBlocks = {}
        /\ \A i \in Inodes : ReadInode(disk, i) = inodes[i]
        /\ ReadBitSet(disk) = bitSet

\* min(n, end_pos - cur_pos), and 0 at or past the end of the file
ClampedCount(f, n) ==
    IF f.filePos >= f.endPos THEN 0
    ELSE IF n < f.endPos - f.filePos THEN n ELSE f.endPos - f.filePos

\* C19: for every cursor position and every count n >= 0, read on a handle
\* opened with O_READ returns min(n, end_pos - cur_pos) as the number of
\* bytes read, 0 at end of file, and no error.
C19_ReadStep ==
    (last'.op = "read" /\ nops' = nops + 1 /\ O_READ \in files[last'.h].mode)
        => /\ last'.rc = OK /\ ~crashed'
           /\ last'.n = ClampedCount(files[last'.h], last'.arg)
C19_ReadReturnsClampedCount == [][C19_ReadStep]_vars

\* C20: a read that returns a byte count advances the cursor by exactly that
\* count, and a cursor that was within the file's end position is still
\* within it after the read.
C20_ReadStep ==
    (last'.op = "read" /\ nops' = nops + 1 /\ last'.rc = OK /\ ~crashed')
        => /\ files'[last'.h].filePos = files[last'.h].filePos + last'.n
           /\ (files[last'.h].filePos <= files[last'.h].endPos
                  => files'[last'.h].filePos <= files'[last'.h].endPos)
C20_ReadAdvancesByReturned == [][C20_ReadStep]_vars

\* max(s, c + n)
SizeAfterWrite(s, c, n) == IF c + n > s THEN c + n ELSE s

\* C21: after a successful write of n bytes at cursor c on a file of size s,
\* the inode size is max(s, c + n), the cursor is c + n and the call returns
\* n; a write wholly inside the file leaves the size unchanged.
C21_WriteStep ==
    (last'.op = "write" /\ nops' = nops + 1 /\ last'.rc = OK /\ ~crashed')
        => LET f == files[last'.h]
               n == last'.arg
               s == inodes[f.inode].size
           IN /\ inodes'[f.inode].size = SizeAfterWrite(s, f.filePos, n)
              /\ files'[last'.h].filePos = f.filePos + n
              /\ last'.n = n
              /\ (f.filePos + n <= s => inodes'[f.inode].size = s)
DeniedBefore ==
    \/ last'.op = "read" /\ O_READ \notin files[last'.h].mode
    \/ last'.op = "write" /\ O_WRITE \notin files[last'.h].mode

\* C22: a read on a handle opened without O_READ and a write on a handle
\* opened without O_WRITE return EACCESS and change neither the cursor, the
\* file size, the file's blocks nor the bitmap.
C22_DeniedStep ==
    (last'.op \in {"read", "write"} /\ nops' = nops + 1 /\ DeniedBefore)
        => /\ last'.rc = EACCESS
           /\ files' = files
           /\ inodes' = inodes /\ bitSet' = bitSet /\ cache' = cache
           /\ ~crashed'
C22_AccessDeniedChangesNothing == [][C22_DeniedStep]_vars
\* a write was refused on a read-only handle of a file that holds data
C22_Witness ==
    /\ last.op = "write" /\ last.rc = EACCESS /\ last.arg > 0
    /\ files[last.h].kind = "file" /\ O_WRITE \notin files[last.h].mode
    /\ inodes[files[last.h].inode].size > 0

\* the name of every REGULAR entry of directory d, with its position
RegularNames(d) ==
    {<<k, e>> \in UsedEntries(d) :
        DirEntryAt(cache[inodes[d].blockList[k]], e).type = GOSFS_DIRTYP_REGULAR}
NoDuplicateNames ==
    (mounted /\ ~crashed) =>
        \A d \in DirectoryInodes : \A x \in RegularNames(d) : \A y \in RegularNames(d) :
            x # y => DirEntryAt(cache[inodes[d].blockList[x[1]]], x[2]).filename
                         # DirEntryAt(cache[inodes[d].blockList[y[1]]], y[2]).filename

\* C23: mkdir of a name that already exists in its parent directory fails and
\* leaves the parent directory, the inode table and the bitmap unchanged, and
\* no directory ever holds two entries with the same name.
C23_MkdirExistingStep ==
    (/\ last'.op = "mkdir" /\ nops' = nops + 1
     /\ last'.path # RootPath /\ ParentExists(last'.path) /\ Resolves(last'.path))
        => /\ last'.rc # OK
           /\ inodes' = inodes
           /\ bitSet' = bitSet
           /\ DirectoryContents(inodes', cache') = DirectoryContents(inodes, cache)
C23_MkdirExistingRejected == [][C23_MkdirExistingStep]_vars /\ []NoDuplicateNames

\* the parent path of path does not resolve
ParentMissing(path) ==
    LET r == FindInodeByPath(M, GetParentPath(path, GOSFS_FILENAME_MAX + 1).parent)
    IN ~r.crash /\ r.rc # OK

\* C24: mkdir and open with O_CREATE of a path whose parent directory does
\* not exist return ENOTFOUND and leave the inode table, every directory and
\* the bitmap unchanged.
C24_MissingParentStep ==
    (/\ nops' = nops + 1
     /\ \/ last'.op = "mkdir"
        \/ last'.op = "open" /\ last'.arg = 1
     /\ ParentMissing(last'.path))
        => /\ last'.rc = ENOTFOUND
           /\ inodes' = inodes
           /\ bitSet' = bitSet
           /\ DirectoryContents(inodes', cache') = DirectoryContents(inodes, cache)
C24_MissingParentIsNotFound == [][C24_MissingParentStep]_vars

\* the last logical block a file can address: D + I1_CAP + I2_CAP - 1
LastLogicalBlock == CreateLimit - 1

\* C25: a write of at least one byte whose last byte lies in the last
\* addressable logical block, the last byte of that block included, succeeds
\* when the three blocks it may need (the data block and the two levels of
\* index blocks) are free; a write that reaches a logical block past the last
\* addressable one fails.
C25_CeilingStep ==
    (/\ last'.op = "write" /\ nops' = nops + 1 /\ last'.arg > 0
     /\ O_WRITE \in files[last'.h].mode)
        => LET f == files[last'.h]
               lastByte == f.filePos + last'.arg - 1
           IN /\ (/\ lastByte \div GOSFS_FS_BLOCK_SIZE = LastLogicalBlock
                  /\ Cardinality(BitmapBits \ bitSet) >= 3)
                     => (last'.rc = OK /\ last'.n = last'.arg /\ ~crashed')
              /\ lastByte \div GOSFS_FS_BLOCK_SIZE > LastLogicalBlock
                     => last'.rc # OK
C25_WriteAtCeiling == [][C25_CeilingStep]_vars

\* index blocks a file of n data blocks needs
IndirectionOverhead(n) ==
    IF n <= DirectLimit THEN 0
    ELSE IF n <= IndirectLimit THEN 1
    ELSE 2 + ((n - IndirectLimit - 1) \div GOSFS_NUM_PTRS_PER_BLOCK) + 1
\* total_blocks - prefix_blocks - indirection_overhead: the most data blocks
\* of one file that fit in the blocks that are free
ExpectedWrites ==
    LET free == Cardinality(BitmapBits \ bitSet)
        fits == {n \in 0 .. free : n <= CreateLimit /\ n + IndirectionOverhead(n) <= free}
    IN CHOOSE n \in fits : \A k \in fits : k <= n

\* block-sized writes to one file, one after the other, up to the first that
\* does not return its byte count; before is the instance that write started from
RECURSIVE FillLoop(_, _, _)
FillLoop(m, f, count) ==
    LET Written(w) ==
            IF w.m.crash \/ w.rc # OK \/ count > NumDevBlocks
            THEN [count |-> count, rc |-> w.rc, crash |-> w.m.crash, before |-> m]
            ELSE FillLoop(w.m, w.f, count + 1)
    IN Written(DoWrite(m, f, GOSFS_FS_BLOCK_SIZE, UserBuf(GOSFS_FS_BLOCK_SIZE)))
FillVolume ==
    LET Opened(o) ==
            FillLoop(o.m, FileRec("file", o.inode, 0, {O_CREATE, O_WRITE}, <<>>), 0)
    IN Opened(DoOpen(M, <<"/", "a">>, {O_CREATE, O_WRITE}))
FillOutcome(r) == ~r.crash /\ r.count = ExpectedWrites /\ r.rc = ENOSPACE

\* C26: on a freshly formatted and mounted volume, consecutive block-sized
\* writes to one file succeed once for every free block that ends up as a
\* data block, and the first write that fails returns ENOSPACE.
C26_FillUntilNoSpace ==
    (mounted /\ ~crashed /\ last.op = "mount" /\ last.rc = OK) => FillOutcome(FillVolume)

\* create(path); seek(pos); write(n); delete(path) run from the current state
WriteThenDelete(path, pos, n) ==
    LET Deleted(w, d) ==
            [done |-> ~w.m.crash /\ w.rc = OK /\ ~d.m.crash /\ d.rc = OK,
             acquired |-> w.m.bitSet \ bitSet,
             left |-> d.m.bitSet]
        Written(c, w) == Deleted(w, IF w.m.crash \/ w.rc # OK THEN w ELSE DoDelete(w.m, path))
        Created(c) ==
            IF c.m.crash \/ c.rc # OK
            THEN [done |-> FALSE, acquired |-> {}, left |-> {}]
            ELSE Written(c, DoWrite(c.m,
                                    [FileRec("file", c.inode, 0, {O_CREATE, O_WRITE}, <<>>)
                                         EXCEPT !.filePos = pos],
                                    n, UserBuf(n)))
    IN Created(DoOpen(M, path, {O_CREATE, O_WRITE}))
DeleteFrees(r) == r.done => r.acquired \cap r.left = {}

\* C27: in every reachable state whose bitmap and directories are consistent,
\* for a new file written at a position in its direct, single-indirect or
\* double-indirect range, a successful delete clears the bitmap bit of every
\* block the file holds: data blocks, single-indirect leaves and their index
\* block, double-indirect leaves and both levels of their index blocks.
C27_DeleteFreesEveryBlock ==
    (mounted /\ ~crashed /\ C1_BitmapIffReachable /\ C2_NoAliasing /\ C3_DirSizeIsEntryCount) =>
        \A path \in Paths : \A pos \in SeekPositions : \A n \in WriteLens \ {0} :
            (~Resolves(path) /\ ParentExists(path))
                => DeleteFrees(WriteThenDelete(path, pos, n))

\* the inode path resolves to, before the step
InodeOf(path) == FindInodeByPath(M, path).inode

\* C28: a successful delete of an existing path leaves the deleted inode
\* free: its flags are zero and its block-pointer vector is all zero, so
\* FindFreeInode can return it again.
C28_DeleteStep ==
    (/\ last'.op = "delete" /\ nops' = nops + 1 /\ last'.rc = OK /\ ~crashed'
     /\ last'.path # RootPath /\ Resolves(last'.path))
        => /\ inodes'[InodeOf(last'.path)].flags = 0
           /\ inodes'[InodeOf(last'.path)].blockList = ZeroInode.blockList
C28_DeleteLeavesInodeFree == [][C28_DeleteStep]_vars

\* logical block bn of the file of f was never allocated
HoleAt(f, bn) ==
    LET Unallocated(g) == ~g.crash /\ g.ret = 0
    IN Unallocated(GetPhysicalBlockByLogical(M, f.inode, bn))
\* bytes pos .. pos + n - 1 lie below the end position and in holes only
RangeInHole(f, pos, n) ==
    /\ pos + n <= f.endPos
    /\ \A bn \in (pos \div GOSFS_FS_BLOCK_SIZE) .. ((pos + n - 1) \div GOSFS_FS_BLOCK_SIZE) :
           HoleAt(f, bn)
ReadsZeros(r, n) == ~r.crash /\ r.rc = OK /\ r.data = [k \in 1 .. n |-> 0]

\* C29: in every reachable state, for every handle open for reading, a read
\* of a range below the end position that lies in never-allocated logical
\* blocks succeeds and yields zero bytes.
C29_HoleReadsAsZeros ==
    (mounted /\ ~crashed) =>
        \A h \in Handles : \A pos \in SeekPositions : \A n \in ReadLens \ {0} :
            (/\ files[h].kind = "file" /\ O_READ \in files[h].mode
             /\ HasFlag(inodes[files[h].inode].flags, GOSFS_DIRENTRY_USED)
             /\ ~HasFlag(inodes[files[h].inode].flags, GOSFS_DIRENTRY_ISDIRECTORY)
             /\ RangeInHole(files[h], pos, n))
                => ReadsZeros(DoRead(M, [files[h] EXCEPT !.filePos = pos], pos, n), n)

\* C30: a read, whether it succeeds or fails, leaves the bitmap, the inode
\* table (block pointers and sizes), every block (indirection blocks and
\* directories) and the device unchanged; of the handles only the cursor of
\* the one read may change.
C30_ReadStep ==
    (last'.op = "read" /\ nops' = nops + 1 /\ ~crashed')
        => /\ bitSet' = bitSet
           /\ inodes' = inodes
           /\ cache' = cache
           /\ disk' = disk
           /\ files' = [files EXCEPT ![last'.h].filePos = files'[last'.h].filePos]
RuleSlot(L) ==
    IF L < DirectLimit THEN L
    ELSE IF L < IndirectLimit
    THEN GOSFS_NUM_DIRECT_BLOCKS + ((L - DirectLimit) \div GOSFS_NUM_PTRS_PER_BLOCK)
    ELSE GOSFS_NUM_DIRECT_BLOCKS + GOSFS_NUM_INDIRECT_BLOCKS
         + ((L - IndirectLimit) \div (GOSFS_NUM_PTRS_PER_BLOCK * GOSFS_NUM_PTRS_PER_BLOCK))
RuleMiddle(L) ==
    IF L < IndirectLimit THEN 0
    ELSE ((L - IndirectLimit) \div GOSFS_NUM_PTRS_PER_BLOCK) % GOSFS_NUM_PTRS_PER_BLOCK
RuleLeaf(L) ==
    IF L < DirectLimit THEN 0
    ELSE IF L < IndirectLimit THEN (L - DirectLimit) % GOSFS_NUM_PTRS_PER_BLOCK
    ELSE (L - IndirectLimit) % GOSFS_NUM_PTRS_PER_BLOCK
\* what IsFileBlockExists, GetPhysicalBlockByLogical and CreateFileBlock compute
CodeSlot(L) ==
    IF L < DirectLimit THEN L ELSE IF L < IndirectLimit THEN Ind1Slot(L) ELSE Ind2Slot(L)
CodeMiddle(L) == IF L < IndirectLimit THEN 0 ELSE Ind2Offset(L)
CodeLeaf(L) ==
    IF L < DirectLimit THEN 0
    ELSE IF L < IndirectLimit THEN Ind1Offset(L) ELSE Ind2Offset2x(L)

\* C31: on a mounted volume, for every logical block index below the
\* addressable ceiling the inode slot and the in-block offsets that lookup and allocation use are
\* those of the three-region rule, and the slot lies inside the inode's
\* pointer vector.
C31_ThreeRegionRule ==
    (mounted /\ ~crashed) =>
        \A L \in 0 .. ExistsLimit - 1 :
            /\ CodeSlot(L) = RuleSlot(L)
            /\ CodeMiddle(L) = RuleMiddle(L)
            /\ CodeLeaf(L) = RuleLeaf(L)
            /\ CodeSlot(L) < GOSFS_NUM_BLOCK_PTRS

\* every non-zero pointer of a live inode's block-pointer vector or of an
\* indirection block names a block of the volume whose bitmap bit is set
PointersAllocated == \A t \in AllSlots : t.ptr \in Blocks /\ t.ptr \in bitSet

\* C32: no operation on a mounted volume, an allocation that fails part-way
\* included, takes the volume from a state in which every non-zero pointer
\* names an allocated block of the volume to a state in which one does not.
C32_PointerStep == (mounted /\ ~crashed /\ PointersAllocated /\ ~crashed') => PointersAllocated'
C32_PointersStayAllocated == [][C32_PointerStep]_vars

\* the instance once block-sized writes have used up every block
FullVolume == FillVolume.before
\* what the instance holds besides the contents of data blocks
Pointers(m) == [i \in Inodes |-> m.inodes[i].blockList]
AllocationRefused(m, after, failed) ==
    /\ ~after.crash /\ failed
    /\ after.bitSet = m.bitSet
    /\ Pointers(after) = Pointers(m)
    /\ after.cache = m.cache
NewBlockRefused(m) ==
    LET Got(g) == AllocationRefused(m, g.m, ToInt(g.ret) < 0)
    IN Got(GetNewFreeBlock(m))

\* C33: on a volume whose bitmap has no clear bit (a fresh volume filled by
\* block-sized writes to one file), GetNewFreeBlock fails, sets no bit, and
\* changes no inode and no block.
C33_FullBitmapRefusesAllocation ==
    (mounted /\ ~crashed /\ last.op = "mount" /\ last.rc = OK) =>
        (FullVolume.bitSet = BitmapBits => NewBlockRefused(FullVolume))

\* k block-sized writes through f, one after the other
RECURSIVE WriteBlocks(_, _, _)
WriteBlocks(m, f, k) ==
    LET Written(w) == WriteBlocks(w.m, w.f, k - 1)
    IN IF k = 0 THEN m
       ELSE Written(DoWrite(m, f, GOSFS_FS_BLOCK_SIZE, UserBuf(GOSFS_FS_BLOCK_SIZE)))
\* block-sized writes to a new file that leave exactly one block free
WritesToOneFree ==
    LET free == Cardinality(BitmapBits \ bitSet) - 2
    IN CHOOSE k \in 0 .. free : (k + 1) + IndirectionOverhead(k + 1) = free
\* from a fresh volume: mkdir /a; create /a/a and write it until one block is
\* free; mkdir /b and mkdir /c (each leaves its entry in the root although it
\* fails); delete /a/a.  The root then holds as many entries as its direct
\* blocks have room for, and both an inode and blocks are free.
FullParentVolume ==
    LET u == CHOOSE x \in Inodes : TRUE
        File(o) == FileRec("file", o.inode, 0, {O_CREATE, O_WRITE}, <<>>)
        Filled(w) ==
            DoDelete(DoCreateDirectory(DoCreateDirectory(w, <<"/", "b">>, u).m,
                                       <<"/", "c">>, u).m,
                     <<"/", "a", "/", "a">>).m
        Opened(o) == Filled(WriteBlocks(o.m, File(o), WritesToOneFree))
        Made(d) == Opened(DoOpen(d.m, <<"/", "a", "/", "a">>, {O_CREATE, O_WRITE}))
    IN Made(DoCreateDirectory(M, <<"/", "a">>, u))
EntriesOf(m, d) ==
    {<<k, e>> \in (1 .. GOSFS_NUM_DIRECT_BLOCKS) \X EntryIdx :
        /\ m.inodes[d].blockList[k] # 0
        /\ BlockOK(m.inodes[d].blockList[k])
        /\ DirEntryAt(m.cache[m.inodes[d].blockList[k]], e).type # GOSFS_DIRTYP_FREE}
LiveIn(m) == {i \in Inodes : HasFlag(m.inodes[i].flags, GOSFS_DIRENTRY_USED)}
ParentIsFull(m) ==
    /\ ~m.crash
    /\ Cardinality(EntriesOf(m, 0)) =
           GOSFS_NUM_DIRECT_BLOCKS * GOSFS_DIR_ENTRIES_PER_BLOCK
    /\ LiveIn(m) # Inodes
    /\ m.bitSet # BitmapBits
InsertionRefused(m, r) ==
    /\ ~r.m.crash /\ r.rc # OK
    /\ LiveIn(r.m) = LiveIn(m)
    /\ r.m.bitSet = m.bitSet
NewName == <<"/", "a", "b">>

\* C34: when the root directory holds GOSFS_NUM_DIRECT_BLOCKS *
\* GOSFS_DIR_ENTRIES_PER_BLOCK entries, mkdir and open with O_CREATE of a new
\* name in it return an error and leave no new live inode and no new block.
C34_FullParentRejectsInsertion ==
    (mounted /\ ~crashed /\ last.op = "mount" /\ last.rc = OK) =>
        LET u == CHOOSE x \in Inodes : TRUE
            Refused(m) ==
                ParentIsFull(m) =>
                    /\ InsertionRefused(m, DoCreateDirectory(m, NewName, u))
                    /\ InsertionRefused(m, DoOpen(m, NewName, {O_CREATE, O_WRITE}))
        IN Refused(FullParentVolume)

\* the indirection blocks inode i names: its single-indirect block, its
\* double-indirect block and the second-level blocks that one names
IndexBlocksOf(in, ca, i) ==
    LET bl == in[i].blockList
        ind == bl[GOSFS_NUM_DIRECT_BLOCKS + 1]
        ind2 == bl[GOSFS_NUM_DIRECT_BLOCKS + GOSFS_NUM_INDIRECT_BLOCKS + 1]
        second == IF ind2 # 0 /\ BlockOK(ind2)
                  THEN {PtrAt(ca[ind2], e) : e \in PtrOffsets} ELSE {}
    IN {b \in {ind, ind2} \cup second : b # 0 /\ BlockOK(b)}
NoEmptyIndexBlock(in, ca) ==
    \A i \in Inodes :
        HasFlag(in[i].flags, GOSFS_DIRENTRY_USED) =>
            \A b \in IndexBlocksOf(in, ca, i) : \E e \in PtrOffsets : PtrAt(ca[b], e) # 0
\* create(old); seek to the first single-indirect block; write one byte;
\* delete(old); create(new); write one block at position 0
DeleteThenReuse(old, new) ==
    LET File(o, pos) ==
            [FileRec("file", o.inode, 0, {O_CREATE, O_WRITE}, <<>>) EXCEPT !.filePos = pos]
        Opened(o, pos, n) == DoWrite(o.m, File(o, pos), n, UserBuf(n))
        First == Opened(DoOpen(M, old, {O_CREATE, O_WRITE}),
                        DirectLimit * GOSFS_FS_BLOCK_SIZE, 1)
        Second(d) == Opened(DoOpen(d.m, new, {O_CREATE, O_WRITE}), 0, GOSFS_FS_BLOCK_SIZE)
    IN Second(DoDelete(First.m, old))

\* C35: in every reachable state whose bitmap and directories are consistent
\* and whose indirection blocks each have a non-zero slot, writing a new file
\* in its single-indirect range, deleting it, and writing another new file
\* leaves every indirection block that a live inode names with a non-zero slot.
C35_NoEmptyIndexBlock ==
    (/\ mounted /\ ~crashed
     /\ C1_BitmapIffReachable /\ C2_NoAliasing /\ C3_DirSizeIsEntryCount
     /\ NoEmptyIndexBlock(inodes, cache)
     /\ ~Resolves(<<"/", "a">>) /\ ~Resolves(<<"/", "b">>)) =>
        LET Kept(r) == (~r.m.crash /\ r.rc = OK) => NoEmptyIndexBlock(r.m.inodes, r.m.cache)
        IN Kept(DeleteThenReuse(<<"/", "a">>, <<"/", "b">>))

\* a seek that must be rejected: past the end position on a directory handle
\* or on a handle opened with O_READ
SeekPastEnd(f, pos) == (f.kind = "dir" \/ O_READ \in f.mode) /\ pos > f.endPos

\* C36: seek(pos) on a directory handle or an O_READ handle with pos beyond
\* the end position returns EINVALID and leaves the cursor; every other seek
\* returns 0 and sets the cursor to pos.
C36_SeekStep ==
    (last'.op = "seek" /\ nops' = nops + 1 /\ ~crashed') =>
        IF SeekPastEnd(files[last'.h], last'.arg)
        THEN last'.rc = EINVALID /\ files'[last'.h].filePos = files[last'.h].filePos
        ELSE last'.rc = OK /\ files'[last'.h].filePos = last'.arg
C36_SeekRejectsPastEndOnRead == [][C36_SeekStep]_vars

\* ceil(n / d)
CeilDiv(n, d) == (n + d - 1) \div d
\* the offsets that follow from ceil(numBlocks / GOSFS_NUM_BITS_PER_FS_BLOCK)
\* bitmap blocks
LayoutFor(numBlocks) ==
    LET bitmapBlocks == CeilDiv(numBlocks, GOSFS_NUM_BITS_PER_FS_BLOCK)
    IN <<GOSFS_BLOCK_BITMAP_OFFSET,
         GOSFS_BLOCK_BITMAP_OFFSET + bitmapBlocks,
         GOSFS_BLOCK_BITMAP_OFFSET + bitmapBlocks + GOSFS_NUM_INODE_BLOCKS>>

\* C37: for every device size, the superblock GOSFS_Format stores places the
\* inode table ceil(numBlocks / GOSFS_NUM_BITS_PER_FS_BLOCK) blocks after the
\* bitmap offset and the data region GOSFS_NUM_INODE_BLOCKS blocks after that,
\* also when numBlocks is a multiple of GOSFS_NUM_BITS_PER_FS_BLOCK.
C37_FormatStep ==
    (last'.op = "format" /\ last'.data # <<>>) => last'.data = LayoutFor(last'.arg)
C37_BitmapBlocksAreCeil == [][C37_FormatStep]_vars

\* the inodes that REGULAR entries of the directories of m name
RegularTargets(m) ==
    LET Entry(d, x) == DirEntryAt(m.cache[m.inodes[d].blockList[x[1]]], x[2])
        dirs == {i \in LiveIn(m) : HasFlag(m.inodes[i].flags, GOSFS_DIRENTRY_ISDIRECTORY)}
    IN UNION {{Entry(d, x).inode :
                  x \in {y \in EntriesOf(m, d) : Entry(d, y).type = GOSFS_DIRTYP_REGULAR}} :
              d \in dirs}
EntriesNameLiveInodes(m) == RegularTargets(m) \subseteq LiveIn(m)
\* from a fresh volume: create /a and write it until one block is free; then
\* mkdir /b
MkdirWithOneBlockFree ==
    LET u == CHOOSE x \in Inodes : TRUE
        free == Cardinality(BitmapBits \ bitSet) - 1
        k == CHOOSE n \in 0 .. free : (n + 1) + IndirectionOverhead(n + 1) = free
        File(o) == FileRec("file", o.inode, 0, {O_CREATE, O_WRITE}, <<>>)
        Opened(o) == WriteBlocks(o.m, File(o), k)
        Filled(w) ==
            [before |-> w, after |-> DoCreateDirectory(w, <<"/", "b">>, u)]
    IN Filled(Opened(DoOpen(M, <<"/", "a">>, {O_CREATE, O_WRITE})))

\* C38: a mkdir that fails part-way (the volume has room for the parent's new
\* directory block but not for the new directory's own block) leaves every
\* REGULAR directory entry naming an inode whose USED flag is set.
C38_EntriesNameLiveInodes ==
    (/\ mounted /\ ~crashed /\ last.op = "mount" /\ last.rc = OK
     /\ C1_BitmapIffReachable /\ C2_NoAliasing /\ C3_DirSizeIsEntryCount) =>
        LET Kept(r) ==
                (/\ ~r.before.crash /\ ~r.after.m.crash
                 /\ Cardinality(BitmapBits \ r.before.bitSet) = 1
                 /\ EntriesNameLiveInodes(r.before))
                    => EntriesNameLiveInodes(r.after.m)
        IN Kept(MkdirWithOneBlockFree)

\* the open file records that name inode i
RecordsOf(fs, i) == {h \in Handles : fs[h].kind = "file" /\ fs[h].inode = i}
EndPositionsCurrent(fs, in, i) == \A h \in RecordsOf(fs, i) : fs[h].endPos = in[i].size

\* C39: when every open record of a file has the inode's size as its end
\* position, a successful write through one of them leaves every record of
\* that file with the inode's new size as its end position.
C39_AppendStep ==
    (/\ last'.op = "write" /\ nops' = nops + 1 /\ last'.rc = OK /\ ~crashed'
     /\ EndPositionsCurrent(files, inodes, files[last'.h].inode))
        => EndPositionsCurrent(files', inodes', files[last'.h].inode)
C39_RecordsSeeAppend == [][C39_AppendStep]_vars

\* the blocks inode i names, data and indirection blocks alike
BlocksOfInode(i) == {t.ptr : t \in InodeSlots(i)}
DistinctFilesShareNoBlock ==
    \A h1 \in Handles : \A h2 \in Handles :
        (/\ files[h1].kind = "file" /\ files[h2].kind = "file"
         /\ files[h1].inode # files[h2].inode)
            => BlocksOfInode(files[h1].inode) \cap BlocksOfInode(files[h2].inode) = {}
\* the bit a thread read as clear is still the first clear bit when the thread
\* sets it
AllocationIsAtomic ==
    \A t \in Threads :
        thr[t].pc = "found"
            => thr[t].freeBlock = Find_First_Free_Bit(bitSet, NumDevBlocks)

====
